---- MODULE Spec2Model ----
(***************************************************************************)
(* A model of pycheribuild/projects/project.py: the build lifecycle of a   *)
(* Project (process and its phases), the git synchronisation run by        *)
(* update(), and the subprocess runner runWithLogfile with its stderr      *)
(* drain thread.                                                           *)
(*                                                                         *)
(* Spec       the lifecycle: one Project object from construction on       *)
(* SpecRun    one call of runWithLogfile, the caller and the stderr thread *)
(* SpecQuery  queryYesNo called with every combination of arguments        *)
(* SpecDeps   one call of checkSystemDependencies, tool by tool            *)
(* SpecUpdate   update() alone, over every working tree                    *)
(* SpecInstall  configure() and install() with installPrefix and destdir   *)
(* SpecTargets  class registration and allDependencyNames on a graph       *)
(* SpecArch     registration of a multi-arch class and its build dirs      *)
(* SpecMake     MakeOptions: set, remove_var, update and rendering         *)
(***************************************************************************)
EXTENDS Integers, Sequences, FiniteSets, TLC

VARIABLES
    config,             \* CheriConfig: the run-wide flags
    project,            \* class attributes of the Project being built
    pc,                 \* position of the primary thread
    phaseLog,           \* phases of process() in the order they were started
    phasesDone,         \* phases that have returned normally
    systemDepsChecked,  \* self._systemDepsChecked
    toolMissing,        \* a required tool was found missing by the check
    gitLog,             \* git commands issued by update(), in order
    hasChanges,         \* local hasChanges of _updateGitRepo
    diffStat,           \* what git diff --stat reported: "none", "clean", "dirty"
    stashLog,           \* what the stash save of this run printed
    cleaner,            \* worker thread of the background directory cleaner
    cleanLog,           \* commands clean() ran in the foreground
    buildCmds,          \* commands run through runWithLogfile, in order
    fatalRaised,        \* a fatal error (SystemExit) is propagating / ended the call
    exitAs,             \* how the with-block of process() is being left
    tree,               \* the git working tree at self.sourceDir
    prompts,            \* the queryYesNo calls made, in order
    syncArgs,           \* the arguments update() passed to _updateGitRepo
    configured,         \* what the configure() call of process() did
    run,                \* state of one runWithLogfile call (SpecRun)
    deps,               \* state of one checkSystemDependencies call (SpecDeps)
    inst,               \* a project with its install prefix and DESTDIR (SpecInstall)
    targetManager,      \* the registered targets and one resolution (SpecTargets)
    make_args           \* MakeOptions objects and their rendering (SpecMake)

vars == << config, project, pc, phaseLog, phasesDone, systemDepsChecked,
           toolMissing, gitLog, hasChanges, diffStat, stashLog, cleaner,
           cleanLog, buildCmds, fatalRaised, exitAs, tree, prompts, syncArgs,
           configured,
                    run, deps, inst, targetManager, make_args >>

lifecycleVars == << config, project, pc, phaseLog, phasesDone,
                    systemDepsChecked, toolMissing, gitLog, hasChanges,
                    diffStat, stashLog, cleaner, cleanLog, buildCmds, fatalRaised,
                    exitAs, tree, prompts, syncArgs, configured, deps,
                    inst, targetManager, make_args >>

----------------------------------------------------------------------------
(* Bounds *)

\* number of executables a project may require (self.__requiredSystemTools)
MaxTools == 2

\* lines the child process writes to its stdout and to its stderr
MaxOutLines == 2
MaxErrLines == 2

\* queryYesNo calls in one run of SpecQuery
MaxPrompts == 2

\* dependencies declared by the classes of SpecTargets, all in all
MaxEdges == 4

\* depth of the call stack at which the interpreter raises RecursionError
RecursionLimit == 5

\* architectures a class may list in supported_architectures
MaxArchs == 2

\* flags the constructor of a project adds to self.make_args
MaxFlags == 2

\* calls of set, remove_var and update on one MakeOptions object
MaxCalls == 2

\* calls of configure, compile, install and __setattr__ on one Project
MaxProjectCalls == 2

----------------------------------------------------------------------------
(* Helpers *)

Range(s) == { s[i] : i \in 1..Len(s) }

SeqsUpTo(S, n) == UNION { [1..k -> S] : k \in 0..n }

\* the phases of process() in the order of the calls in its body
PhaseOrder == << "update", "checkSystemDependencies", "clean",
                 "configure", "compile", "install" >>

PhaseIndex(p) == CHOOSE i \in 1..Len(PhaseOrder) : PhaseOrder[i] = p

----------------------------------------------------------------------------
(* Collaborators from utils.py *)

\* fatalError(..., fatalWhenPretending): ends the run; update() passes
\* fatalWhenPretending=True, the flag that makes the error fatal in pretend
\* mode as well
FatalErrorExits(fatalWhenPretending) ==
    ~config.pretend \/ fatalWhenPretending

\* runCmd: a command that exits nonzero is a fatal error
RunCmdFails(exitCode) == exitCode # 0

ExitCodes == {0, 1}

----------------------------------------------------------------------------
(* SimpleProject.queryYesNo *)

\* what the user may type at the prompt, as sequences of characters
Answers == { <<>>, <<"y">>, <<"n">>, <<"Y">>, <<"N">>, <<"n", "o">>,
             <<"y", "e", "s">> }

Lower(c) == CASE c = "Y" -> "y" [] c = "N" -> "n" [] OTHER -> c

StartsWith(s, c) == Len(s) > 0 /\ s[1] = c

\* queryYesNoPath without the test of sys.__stdin__.isatty()
queryYesNoPathNoTtyTest(isatty) ==
    IF config.pretend THEN "pretend"
    ELSE IF config.force THEN "force"
    ELSE "input"

\* the return statement at which queryYesNo ends: the one of pretend mode,
\* the one of force mode, the one taken when sys.__stdin__ is not a terminal,
\* or the ones after input()
queryYesNoPath(isatty) ==
    IF config.pretend THEN "pretend"
    ELSE IF config.force THEN "force"
    ELSE IF ~isatty THEN "notty"
    ELSE "input"

\* the cases of queryYesNo in which input() is called
QueryReadsInput(isatty) == queryYesNoPath(isatty) = "input"

queryYesNo(defaultResult, forceResult, isatty, answer) ==
    LET path == queryYesNoPath(isatty) IN
    IF path = "pretend" THEN forceResult
    ELSE IF path = "force" THEN forceResult
    ELSE IF path = "notty" THEN defaultResult
    ELSE IF defaultResult THEN ~StartsWith(answer, "n")
    ELSE Len(answer) > 0 /\ Lower(answer[1]) = "y"

\* the record of one queryYesNo call: its arguments, the terminal it found,
\* whether it called input(), and what it returned
Prompt(what, defaultResult, forceResult, isatty, answer) ==
    [ what |-> what, defaultResult |-> defaultResult,
      forceResult |-> forceResult, isatty |-> isatty,
      readInput |-> QueryReadsInput(isatty),
      result |-> queryYesNo(defaultResult, forceResult, isatty, answer) ]

----------------------------------------------------------------------------
(* Initial state: a constructed Project, process() not yet called *)

\* the flags the lifecycle reads; the output flags (noLogfile, quiet, verbose)
\* only choose a path inside runWithLogfile and are varied in SpecRun; force
\* is read by queryYesNo only and is varied in SpecUpdate and SpecQuery
ConfigValues ==
    [ pretend : BOOLEAN, force : {FALSE}, clean : BOOLEAN,
      skipUpdate : BOOLEAN, skipConfigure : BOOLEAN,
      configureOnly : BOOLEAN, skipInstall : BOOLEAN,
      forceConfigure : BOOLEAN,
      noLogfile : {FALSE}, quiet : {FALSE}, verbose : {FALSE} ]

\* repository: a git URL is set; gitRevision: a revision is pinned;
\* gitBranch: a branch is named; inPlace: (buildDir / ".git").is_dir();
\* configureCommand: one is set.  gitBranch is read by the clone only and is
\* varied in SpecUpdate
ProjectValues ==
    [ repository : BOOLEAN, skipGitSubmodules : BOOLEAN,
      gitRevision : BOOLEAN, gitBranch : {FALSE}, inPlace : BOOLEAN,
      configureCommand : BOOLEAN ]

\* the working tree at the source path.  exists: (srcDir / ".git").exists();
\* rev: the revision checked out, R1 before the update, R2 the upstream
\* head, "pin" the pinned revision; mods: the local modifications in the
\* tree, "tracked" ones that git stash saves, "other" ones that git diff
\* reports and git stash does not save; stash: the automatic stash holds the
\* local modifications; exists0, mods0: exists and mods before update()
TreeValues ==
    { [ exists |-> FALSE, rev |-> "none", branch |-> "none", mods |-> "none",
        stash |-> FALSE, exists0 |-> FALSE, mods0 |-> "none" ] }
    \cup { [ exists |-> TRUE, rev |-> "R1", branch |-> "default", mods |-> m,
            stash |-> FALSE, exists0 |-> TRUE, mods0 |-> m ] :
            m \in {"none", "tracked", "other"} }

NoSyncArgs ==
    [ called |-> FALSE, srcDir |-> "none", revision |-> FALSE,
      initialBranch |-> FALSE, skipSubmodules |-> FALSE ]

DepsIdle == [ dpc |-> "idle" ]

\* called: configure() was called; needsConfigure: what self.needsConfigure()
\* returned; ran: configure() called runWithLogfile with the configure command
NotConfigured ==
    [ called |-> FALSE, needsConfigure |-> FALSE, ran |-> FALSE ]

RunIdle == [ rpc |-> "idle" ]

InstIdle == [ ipc |-> "idle" ]

TargetsIdle == [ tpc |-> "idle" ]

MakeIdle == [ mpc |-> "idle" ]

\* the side specifications are not running
NoSideCalls ==
    /\ inst = InstIdle
    /\ targetManager = TargetsIdle
    /\ make_args = MakeIdle

\* the values of the lifecycle variables common to every initial state
InitLifecycle ==
    /\ phaseLog = << >>
    /\ phasesDone = {}
    /\ systemDepsChecked = FALSE
    /\ toolMissing = FALSE
    /\ gitLog = << >>
    /\ hasChanges = FALSE
    /\ diffStat = "none"
    /\ stashLog = "none"
    /\ cleaner = "none"
    /\ cleanLog = << >>
    /\ buildCmds = << >>
    /\ fatalRaised = FALSE
    /\ exitAs = "none"
    /\ prompts = << >>
    /\ syncArgs = NoSyncArgs
    /\ configured = NotConfigured

Init ==
    /\ config \in ConfigValues
    /\ project \in ProjectValues
    /\ tree \in TreeValues
    /\ pc = "created"
    /\ InitLifecycle
    /\ NoSideCalls
    /\ run = RunIdle
    /\ deps = DepsIdle

----------------------------------------------------------------------------
(* Project.update and the repository synchroniser *)

gitVars == << gitLog, hasChanges, diffStat, stashLog, tree, prompts, syncArgs >>

\* what no step of update() touches
gitFrame == << config, project, phaseLog, systemDepsChecked, toolMissing,
               cleaner, cleanLog, buildCmds, exitAs, configured,
                    run, deps, inst, targetManager, make_args >>

\* a fatal error raised before the with-block of process() is entered
RaiseFatal ==
    /\ pc' = "failed"
    /\ fatalRaised' = TRUE

\* the arguments of the call self._updateGitRepo(self.sourceDir,
\* self.repository, revision=self.gitRevision, initialBranch=self.gitBranch,
\* skipSubmodules=self.skipGitSubmodules)
UpdateArgs ==
    [ called |-> TRUE, srcDir |-> "sourceDir",
      revision |-> project.gitRevision,
      initialBranch |-> project.gitBranch,
      skipSubmodules |-> project.skipGitSubmodules ]

\* ProcessUpdate with the check for a repository left out
ProcessUpdateNoRepositoryCheck ==
    /\ pc = "created"
    /\ IF config.skipUpdate
       THEN /\ pc' = "deps"
            /\ UNCHANGED << phaseLog, fatalRaised, syncArgs >>
       ELSE /\ phaseLog' = Append(phaseLog, "update")
            /\ syncArgs' = UpdateArgs
            /\ pc' = "git_clone"
            /\ UNCHANGED fatalRaised
    /\ UNCHANGED << config, project, phasesDone, systemDepsChecked,
                    toolMissing, gitLog, hasChanges, diffStat, stashLog,
                    tree, prompts, cleaner, cleanLog, buildCmds, exitAs,
                    configured,
                    run, deps, inst, targetManager, make_args >>

\* process(), up to the update phase: "if not self.config.skipUpdate: self.update()"
\* update(): without a repository the error is fatal also when pretending
ProcessUpdate ==
    /\ pc = "created"
    /\ IF config.skipUpdate
       THEN /\ pc' = "deps"
            /\ UNCHANGED << phaseLog, fatalRaised, syncArgs >>
       ELSE /\ phaseLog' = Append(phaseLog, "update")
            /\ IF ~project.repository /\ FatalErrorExits(TRUE)
               THEN RaiseFatal /\ UNCHANGED syncArgs
               ELSE /\ syncArgs' = UpdateArgs
                    /\ pc' = "git_clone"
                    /\ UNCHANGED fatalRaised
    /\ UNCHANGED << config, project, phasesDone, systemDepsChecked,
                    toolMissing, gitLog, hasChanges, diffStat, stashLog,
                    tree, prompts, cleaner, cleanLog, buildCmds, exitAs,
                    configured,
                    run, deps, inst, targetManager, make_args >>

\* git clone [--recurse-submodules] [--branch initialBranch] url srcDir: the
\* tree a successful clone leaves at srcDir
ClonedTree ==
    [ exists |-> TRUE, rev |-> "R2",
      branch |-> IF syncArgs.initialBranch THEN "initialBranch" ELSE "default",
      mods |-> "none", stash |-> FALSE, exists0 |-> tree.exists0,
      mods0 |-> "none" ]

\* EnsureGitRepoIsCloned with the answer to the confirmation ignored
EnsureGitRepoIsClonedUnasked ==
    /\ pc = "git_clone"
    /\ \E isatty \in BOOLEAN, answer \in Answers, exitCode \in ExitCodes :
         IF tree.exists
         THEN /\ pc' = "git_diff"
              /\ UNCHANGED << gitLog, fatalRaised, tree, prompts >>
         ELSE /\ prompts' = Append(prompts,
                                   Prompt("clone", FALSE, TRUE, isatty, answer))
              /\ gitLog' = Append(gitLog, "clone")
              /\ IF RunCmdFails(exitCode)
                 THEN RaiseFatal /\ UNCHANGED tree
                 ELSE /\ tree' = ClonedTree
                      /\ pc' = "git_diff"
                      /\ UNCHANGED fatalRaised
    /\ UNCHANGED << gitFrame, phasesDone, hasChanges, diffStat, stashLog,
                    syncArgs >>

\* _ensureGitRepoIsCloned
EnsureGitRepoIsCloned ==
    /\ pc = "git_clone"
    /\ \E isatty \in BOOLEAN, answer \in Answers, exitCode \in ExitCodes :
         IF tree.exists
         THEN /\ pc' = "git_diff"
              /\ UNCHANGED << gitLog, fatalRaised, tree, prompts >>
         ELSE /\ prompts' = Append(prompts,
                                   Prompt("clone", FALSE, TRUE, isatty, answer))
              /\ IF ~queryYesNo(FALSE, TRUE, isatty, answer)
                    /\ FatalErrorExits(FALSE)
                 THEN RaiseFatal /\ UNCHANGED << gitLog, tree >>
                 ELSE /\ gitLog' = Append(gitLog, "clone")
                      /\ IF RunCmdFails(exitCode)
                         THEN RaiseFatal /\ UNCHANGED tree
                         ELSE /\ tree' = ClonedTree
                              /\ pc' = "git_diff"
                              /\ UNCHANGED fatalRaised
    /\ UNCHANGED << gitFrame, phasesDone, hasChanges, diffStat, stashLog,
                    syncArgs >>

\* the length of what git diff --stat prints: more than one byte exactly
\* when the tree has local modifications
DiffLengths == IF tree.mods = "none" THEN {0, 1} ELSE {2}

\* hasChanges = len(git diff --stat --ignore-submodules) > 1
GitDiff ==
    /\ pc = "git_diff"
    /\ \E exitCode \in ExitCodes, diffLen \in DiffLengths :
         /\ gitLog' = Append(gitLog, "diff")
         /\ IF RunCmdFails(exitCode)
            THEN RaiseFatal /\ UNCHANGED << hasChanges, diffStat >>
            ELSE /\ hasChanges' = (diffLen > 1)
                 /\ diffStat' = IF diffLen > 1 THEN "dirty" ELSE "clean"
                 /\ pc' = "git_stash"
                 /\ UNCHANGED fatalRaised
    /\ UNCHANGED << gitFrame, phasesDone, stashLog, tree, prompts, syncArgs >>

\* git stash save: it prints "No local changes to save" when the tree has no
\* tracked modification, and otherwise moves them into the stash
StashSaysNoChanges == tree.mods # "tracked"

StashedTree ==
    IF tree.mods = "tracked"
    THEN [ tree EXCEPT !.mods = "none", !.stash = TRUE ]
    ELSE tree

\* GitStash without the test for "No local changes to save"
GitStashIgnoresOutput ==
    /\ pc = "git_stash"
    /\ IF ~hasChanges
       THEN /\ pc' = "git_pull"
            /\ UNCHANGED << gitVars, phasesDone, fatalRaised >>
       ELSE \E isatty \in BOOLEAN, answer \in Answers, exitCode \in ExitCodes :
            /\ prompts' = Append(prompts,
                                 Prompt("stash", TRUE, TRUE, isatty, answer))
            /\ IF ~queryYesNo(TRUE, TRUE, isatty, answer)
               THEN /\ pc' = "deps"
                    /\ phasesDone' = phasesDone \cup {"update"}
                    /\ UNCHANGED << gitLog, hasChanges, diffStat, stashLog,
                                    tree, fatalRaised >>
               ELSE /\ gitLog' = Append(gitLog, "stash save")
                    /\ UNCHANGED << phasesDone, diffStat, hasChanges >>
                    /\ IF RunCmdFails(exitCode)
                       THEN RaiseFatal /\ UNCHANGED << stashLog, tree >>
                       ELSE /\ stashLog' = IF StashSaysNoChanges
                                           THEN "No local changes to save"
                                           ELSE "Saved working directory"
                            /\ tree' = StashedTree
                            /\ pc' = "git_pull"
                            /\ UNCHANGED fatalRaised
    /\ UNCHANGED << gitFrame, syncArgs >>

\* "if hasChanges:" the prompt, the early return and git stash save
GitStash ==
    /\ pc = "git_stash"
    /\ IF ~hasChanges
       THEN /\ pc' = "git_pull"
            /\ UNCHANGED << gitVars, phasesDone, fatalRaised >>
       ELSE \E isatty \in BOOLEAN, answer \in Answers, exitCode \in ExitCodes :
            /\ prompts' = Append(prompts,
                                 Prompt("stash", TRUE, TRUE, isatty, answer))
            /\ IF ~queryYesNo(TRUE, TRUE, isatty, answer)
               THEN \* "Skipping update of": _updateGitRepo returns
                    /\ pc' = "deps"
                    /\ phasesDone' = phasesDone \cup {"update"}
                    /\ UNCHANGED << gitLog, hasChanges, diffStat, stashLog,
                                    tree, fatalRaised >>
               ELSE /\ gitLog' = Append(gitLog, "stash save")
                    /\ UNCHANGED << phasesDone, diffStat >>
                    /\ IF RunCmdFails(exitCode)
                       THEN RaiseFatal
                            /\ UNCHANGED << hasChanges, stashLog, tree >>
                       ELSE /\ stashLog' = IF StashSaysNoChanges
                                           THEN "No local changes to save"
                                           ELSE "Saved working directory"
                            /\ hasChanges' = ~StashSaysNoChanges
                            /\ tree' = StashedTree
                            /\ pc' = "git_pull"
                            /\ UNCHANGED fatalRaised
    /\ UNCHANGED << gitFrame, syncArgs >>

\* git pull --rebase brings the tree to the upstream head
PulledTree == [ tree EXCEPT !.rev = "R2" ]

\* GitPull with steps 4 and 5 reversed: the submodule update before the pull
GitPullAfterSubmodules ==
    /\ pc = "git_pull"
    /\ \E exitCode \in ExitCodes :
         /\ gitLog' = gitLog \o << "submodule update", "pull" >>
         /\ IF RunCmdFails(exitCode)
            THEN RaiseFatal /\ UNCHANGED tree
            ELSE /\ tree' = PulledTree
                 /\ pc' = "git_pop"
                 /\ UNCHANGED fatalRaised
    /\ UNCHANGED << gitFrame, phasesDone, hasChanges, diffStat, stashLog,
                    prompts, syncArgs >>

\* git pull [--recurse-submodules] --rebase
GitPull ==
    /\ pc = "git_pull"
    /\ \E exitCode \in ExitCodes :
         /\ gitLog' = Append(gitLog, "pull")
         /\ IF RunCmdFails(exitCode)
            THEN RaiseFatal /\ UNCHANGED tree
            ELSE /\ tree' = PulledTree
                 /\ pc' = "git_submodule"
                 /\ UNCHANGED fatalRaised
    /\ UNCHANGED << gitFrame, phasesDone, hasChanges, diffStat, stashLog,
                    prompts, syncArgs >>

\* "if not skipSubmodules:" git submodule update --recursive
GitSubmoduleUpdate ==
    /\ pc = "git_submodule"
    /\ IF syncArgs.skipSubmodules
       THEN pc' = "git_pop" /\ UNCHANGED << gitLog, fatalRaised >>
       ELSE \E exitCode \in ExitCodes :
            /\ gitLog' = Append(gitLog, "submodule update")
            /\ IF RunCmdFails(exitCode)
               THEN RaiseFatal
               ELSE pc' = "git_pop" /\ UNCHANGED fatalRaised
    /\ UNCHANGED << gitFrame, phasesDone, hasChanges, diffStat, stashLog,
                    tree, prompts, syncArgs >>

\* git stash pop puts the stashed modifications back into the tree
PoppedTree ==
    IF tree.stash
    THEN [ tree EXCEPT !.mods = "tracked", !.stash = FALSE ]
    ELSE tree

\* GitStashPop without the pop: the stash is left where it is
GitStashPopSkipped ==
    /\ pc = "git_pop"
    /\ pc' = "git_checkout"
    /\ UNCHANGED << gitFrame, gitVars, phasesDone, fatalRaised >>

\* "if hasChanges:" git stash pop
GitStashPop ==
    /\ pc = "git_pop"
    /\ IF ~hasChanges
       THEN pc' = "git_checkout" /\ UNCHANGED << gitLog, fatalRaised, tree >>
       ELSE \E exitCode \in ExitCodes :
            /\ gitLog' = Append(gitLog, "stash pop")
            /\ IF RunCmdFails(exitCode)
               THEN RaiseFatal /\ UNCHANGED tree
               ELSE /\ tree' = PoppedTree
                    /\ pc' = "git_checkout"
                    /\ UNCHANGED fatalRaised
    /\ UNCHANGED << gitFrame, phasesDone, hasChanges, diffStat, stashLog,
                    prompts, syncArgs >>

\* git checkout <revision> moves the tree to the pinned revision
CheckedOutTree == [ tree EXCEPT !.rev = "pin" ]

\* "if revision:" git checkout <revision>; then update() returns
GitCheckoutRevision ==
    /\ pc = "git_checkout"
    /\ IF ~syncArgs.revision
       THEN /\ pc' = "deps"
            /\ phasesDone' = phasesDone \cup {"update"}
            /\ UNCHANGED << gitLog, fatalRaised, tree >>
       ELSE \E exitCode \in ExitCodes :
            /\ gitLog' = Append(gitLog, "checkout")
            /\ IF RunCmdFails(exitCode)
               THEN RaiseFatal /\ UNCHANGED << phasesDone, tree >>
               ELSE /\ tree' = CheckedOutTree
                    /\ pc' = "deps"
                    /\ phasesDone' = phasesDone \cup {"update"}
                    /\ UNCHANGED fatalRaised
    /\ UNCHANGED << gitFrame, hasChanges, diffStat, stashLog, prompts,
                    syncArgs >>

----------------------------------------------------------------------------
(* update() alone: every tree, every mode of the confirmation prompts *)

UpdateConfigValues ==
    [ pretend : BOOLEAN, force : BOOLEAN, skipUpdate : BOOLEAN,
      clean : {FALSE}, skipConfigure : {FALSE}, configureOnly : {FALSE},
      skipInstall : {FALSE}, forceConfigure : {FALSE},
      noLogfile : {FALSE}, quiet : {FALSE}, verbose : {FALSE} ]

UpdateProjectValues ==
    [ repository : BOOLEAN, skipGitSubmodules : BOOLEAN,
      gitRevision : BOOLEAN, gitBranch : BOOLEAN, inPlace : {FALSE},
      configureCommand : {TRUE} ]

InitUpdate ==
    /\ config \in UpdateConfigValues
    /\ project \in UpdateProjectValues
    /\ tree \in TreeValues
    /\ pc = "created"
    /\ InitLifecycle
    /\ NoSideCalls
    /\ run = RunIdle
    /\ deps = DepsIdle

NextUpdate ==
    \/ ProcessUpdate
    \/ EnsureGitRepoIsCloned
    \/ GitDiff
    \/ GitStash
    \/ GitPull
    \/ GitSubmoduleUpdate
    \/ GitStashPop
    \/ GitCheckoutRevision

SpecUpdate == InitUpdate /\ [][NextUpdate]_vars

----------------------------------------------------------------------------
(* SimpleProject.checkSystemDependencies and dependencyError *)

\* the required tools in dictionary order; TRUE: shutil.which finds the tool
ToolLists == SeqsUpTo(BOOLEAN, MaxTools)

SomeToolMissing(tools) == \E i \in 1..Len(tools) : ~tools[i]

\* checkSystemDependencies: at a missing tool dependencyError sets
\* _systemDepsChecked and calls fatalError; after the loop the flag is set.
\* The result is <<the flag, whether the call ended in a fatal error>>.
checkSystemDependencies(tools) ==
    IF SomeToolMissing(tools) /\ FatalErrorExits(FALSE)
    THEN << TRUE, TRUE >>
    ELSE << TRUE, FALSE >>

\* ProcessCheckDeps without the check and without the assertion
ProcessCheckDepsSkipped ==
    /\ pc = "deps"
    /\ pc' = "clean"
    /\ UNCHANGED << config, project, phaseLog, phasesDone,
                    systemDepsChecked, toolMissing, fatalRaised, gitVars,
                    cleaner, cleanLog, buildCmds, exitAs, configured,
                    run, deps, inst, targetManager, make_args >>

\* process(): "if not self._systemDepsChecked: self.checkSystemDependencies()"
\* and the assertion that follows it
ProcessCheckDeps ==
    /\ pc = "deps"
    /\ IF systemDepsChecked
       THEN /\ pc' = "clean"
            /\ UNCHANGED << phaseLog, phasesDone, systemDepsChecked,
                            toolMissing, fatalRaised >>
       ELSE \E tools \in ToolLists :
            LET r == checkSystemDependencies(tools) IN
            /\ phaseLog' = Append(phaseLog, "checkSystemDependencies")
            /\ systemDepsChecked' = r[1]
            /\ toolMissing' = SomeToolMissing(tools)
            /\ IF r[2]
               THEN RaiseFatal /\ UNCHANGED phasesDone
               ELSE /\ phasesDone' = phasesDone \cup {"checkSystemDependencies"}
                    /\ fatalRaised' = ~r[1]
                    /\ pc' = IF r[1] THEN "clean" ELSE "failed"
    /\ UNCHANGED << config, project, gitVars, cleaner, cleanLog, buildCmds,
                    exitAs, configured,
                    run, deps, inst, targetManager, make_args >>

----------------------------------------------------------------------------
(* Project.clean and the background directory cleaner *)

\* ProcessClean with the test for an in-place tree left out: the build
\* directory is always handed to the background cleaner
ProcessCleanAlwaysAsync ==
    /\ pc = "clean"
    /\ IF ~config.clean
       THEN /\ pc' = "configure"
            /\ UNCHANGED << phaseLog, phasesDone, cleaner >>
       ELSE /\ phaseLog' = Append(phaseLog, "clean")
            /\ cleaner' = "running"
            /\ pc' = "configure"
            /\ phasesDone' = phasesDone \cup {"clean"}
    /\ UNCHANGED << config, project, systemDepsChecked, toolMissing,
                    gitVars, cleanLog, fatalRaised, buildCmds, exitAs,
                    configured, run, deps, inst, targetManager, make_args >>

\* the test of line 791: the tree has a GNUmakefile, make is not BSD make
\* and the target is not elftoolchain
UsesDistclean(gnuMakefile, bsdMake, elftoolchain) ==
    gnuMakefile /\ ~bsdMake /\ ~elftoolchain

\* clean(): an in-place build tree is cleaned in the foreground with
\* "make distclean" or "git clean"; a separate build directory is handed to
\* asyncCleanDirectory, whose worker thread the returned ThreadJoiner holds
ProcessClean ==
    /\ pc = "clean"
    /\ IF ~config.clean
       THEN /\ pc' = "configure"
            /\ UNCHANGED << phaseLog, phasesDone, cleaner, cleanLog,
                            fatalRaised >>
       ELSE /\ phaseLog' = Append(phaseLog, "clean")
            /\ IF project.inPlace
               THEN \E gnuMakefile \in BOOLEAN, bsdMake \in BOOLEAN,
                       elftoolchain \in BOOLEAN, exitCode \in ExitCodes :
                    /\ cleanLog' = Append(cleanLog,
                           IF UsesDistclean(gnuMakefile, bsdMake, elftoolchain)
                           THEN "make distclean" ELSE "git clean")
                    /\ cleaner' = cleaner
                    /\ IF RunCmdFails(exitCode)
                       THEN RaiseFatal /\ UNCHANGED phasesDone
                       ELSE /\ pc' = "configure"
                            /\ phasesDone' = phasesDone \cup {"clean"}
                            /\ UNCHANGED fatalRaised
               ELSE /\ cleaner' = "running"
                    /\ pc' = "configure"
                    /\ phasesDone' = phasesDone \cup {"clean"}
                    /\ UNCHANGED << cleanLog, fatalRaised >>
    /\ UNCHANGED << config, project, systemDepsChecked, toolMissing,
                    gitVars, buildCmds, exitAs, configured, run, deps, inst, targetManager, make_args >>

\* the worker thread deletes the directory and ends
CleanerFinish ==
    /\ cleaner = "running"
    /\ cleaner' = "finished"
    /\ UNCHANGED << config, project, pc, phaseLog, phasesDone,
                    systemDepsChecked, toolMissing, gitVars, cleanLog,
                    buildCmds, fatalRaised, exitAs, configured,
                    run, deps, inst, targetManager, make_args >>

\* leaving "with cleaningTask:" by falling off its end, by the return of the
\* configure-only mode, or by a fatal error: ThreadJoiner joins the worker
\* thread (waiting until it has ended), then the block is left
ProcessExitWith ==
    /\ pc = "exit_with"
    /\ cleaner \in {"none", "finished"}
    /\ cleaner' = IF cleaner = "finished" THEN "joined" ELSE cleaner
    /\ pc' = IF exitAs = "fatal" THEN "failed" ELSE "done"
    /\ UNCHANGED << config, project, phaseLog, phasesDone,
                    systemDepsChecked, toolMissing, gitVars, cleanLog,
                    buildCmds, fatalRaised, exitAs, configured,
                    run, deps, inst, targetManager, make_args >>

----------------------------------------------------------------------------
(* configure, compile and install: the phases that run a build command *)

\* how a runWithLogfile call ends for its caller: in pretend mode it returns
\* before the command is started, otherwise a nonzero exit code is fatal
RunWithLogfileResult(exitCode) ==
    IF config.pretend THEN "pretend"
    ELSE IF exitCode # 0 THEN "fatal" ELSE "returned"

\* the record of one command that was run
BuildCmd(name) ==
    [ cmd |-> name, depsChecked |-> systemDepsChecked, cleaner |-> cleaner ]

RunBuildCmd(name, result) ==
    buildCmds' = IF result = "pretend" THEN buildCmds
                 ELSE Append(buildCmds, BuildCmd(name))

\* a fatal error raised inside the with-block of process()
RaiseFatalInWith ==
    /\ pc' = "exit_with"
    /\ exitAs' = "fatal"
    /\ fatalRaised' = TRUE

\* ProcessConfigure with the skip flag obeyed in configure-only mode too
ProcessConfigureObeysSkip ==
    /\ pc = "configure"
    /\ IF ~config.skipConfigure
       THEN /\ phaseLog' = Append(phaseLog, "configure")
            /\ pc' = "configure_run"
       ELSE /\ pc' = "compile"
            /\ UNCHANGED phaseLog
    /\ UNCHANGED << config, project, phasesDone, systemDepsChecked,
                    toolMissing, gitVars, cleaner, cleanLog, buildCmds,
                    fatalRaised, exitAs, configured, run, deps, inst, targetManager, make_args >>

\* process(): "if not self.config.skipConfigure or self.config.configureOnly"
ProcessConfigure ==
    /\ pc = "configure"
    /\ IF ~config.skipConfigure \/ config.configureOnly
       THEN /\ phaseLog' = Append(phaseLog, "configure")
            /\ pc' = "configure_run"
       ELSE /\ pc' = "compile"
            /\ UNCHANGED phaseLog
    /\ UNCHANGED << config, project, phasesDone, systemDepsChecked,
                    toolMissing, gitVars, cleaner, cleanLog, buildCmds,
                    fatalRaised, exitAs, configured,
                    run, deps, inst, targetManager, make_args >>

\* ConfigureRuns without the force-configure flag
ConfigureRunsUnforced(needsConfigure) ==
    /\ ~( ~needsConfigure /\ ~config.configureOnly
          /\ ~config.pretend /\ ~config.clean )
    /\ project.configureCommand

\* ConfigureRuns without the clean flag
ConfigureRunsUncleaned(needsConfigure) ==
    /\ ~( ~needsConfigure /\ ~config.configureOnly /\ ~config.forceConfigure
          /\ ~config.pretend )
    /\ project.configureCommand

\* Project.configure: whether the configure command is run
ConfigureRuns(needsConfigure) ==
    /\ ~( ~needsConfigure /\ ~config.configureOnly /\ ~config.forceConfigure
          /\ ~config.pretend /\ ~config.clean )
    /\ project.configureCommand

Configured(needsConfigure) ==
    [ called |-> TRUE, needsConfigure |-> needsConfigure,
      ran |-> ConfigureRuns(needsConfigure) ]

\* ProcessConfigureRun with the failure of the configure command swallowed:
\* the fatal error is reported and process() goes on to compile
ProcessConfigureRunGoesOn ==
    /\ pc = "configure_run"
    /\ \E needsConfigure \in BOOLEAN, exitCode \in ExitCodes :
         LET r == IF ConfigureRuns(needsConfigure)
                  THEN RunWithLogfileResult(exitCode) ELSE "pretend" IN
         /\ RunBuildCmd("configure", r)
         /\ configured' = Configured(needsConfigure)
         /\ fatalRaised' = (r = "fatal")
         /\ phasesDone' = IF r = "fatal" THEN phasesDone
                          ELSE phasesDone \cup {"configure"}
         /\ IF config.configureOnly
            THEN pc' = "exit_with" /\ exitAs' = "returned"
            ELSE pc' = "compile" /\ UNCHANGED exitAs
    /\ UNCHANGED << config, project, phaseLog, systemDepsChecked,
                    toolMissing, gitVars, cleaner, cleanLog, run, deps, inst, targetManager, make_args >>

\* Project.configure, then process(): "if self.config.configureOnly: return"
ProcessConfigureRun ==
    /\ pc = "configure_run"
    /\ \E needsConfigure \in BOOLEAN, exitCode \in ExitCodes :
         LET r == IF ConfigureRuns(needsConfigure)
                  THEN RunWithLogfileResult(exitCode) ELSE "pretend" IN
         /\ RunBuildCmd("configure", r)
         /\ configured' = Configured(needsConfigure)
         /\ IF r = "fatal"
            THEN RaiseFatalInWith /\ UNCHANGED phasesDone
            ELSE /\ phasesDone' = phasesDone \cup {"configure"}
                 /\ UNCHANGED fatalRaised
                 /\ IF config.configureOnly
                    THEN pc' = "exit_with" /\ exitAs' = "returned"
                    ELSE pc' = "compile" /\ UNCHANGED exitAs
    /\ UNCHANGED << config, project, phaseLog, systemDepsChecked,
                    toolMissing, gitVars, cleaner, cleanLog, run, deps, inst, targetManager, make_args >>

\* ProcessCompile with the wrong phase entered: install where compile belongs
ProcessCompileAsInstall ==
    /\ pc = "compile"
    /\ phaseLog' = Append(phaseLog, "install")
    /\ pc' = "compile_run"
    /\ UNCHANGED << config, project, phasesDone, systemDepsChecked,
                    toolMissing, gitVars, cleaner, cleanLog, buildCmds,
                    fatalRaised, exitAs, configured,
                    run, deps, inst, targetManager, make_args >>

\* process(): self.compile() is called
ProcessCompile ==
    /\ pc = "compile"
    /\ phaseLog' = Append(phaseLog, "compile")
    /\ pc' = "compile_run"
    /\ UNCHANGED << config, project, phasesDone, systemDepsChecked,
                    toolMissing, gitVars, cleaner, cleanLog, buildCmds,
                    fatalRaised, exitAs, configured,
                    run, deps, inst, targetManager, make_args >>

\* Project.compile: self.runMake("all", cwd=cwd)
ProcessCompileRun ==
    /\ pc = "compile_run"
    /\ \E exitCode \in ExitCodes :
         LET r == RunWithLogfileResult(exitCode) IN
         /\ RunBuildCmd("all", r)
         /\ IF r = "fatal"
            THEN RaiseFatalInWith /\ UNCHANGED phasesDone
            ELSE /\ phasesDone' = phasesDone \cup {"compile"}
                 /\ pc' = "install"
                 /\ UNCHANGED << fatalRaised, exitAs >>
    /\ UNCHANGED << config, project, phaseLog, systemDepsChecked,
                    toolMissing, gitVars, cleaner, cleanLog, configured,
                    run, deps, inst, targetManager, make_args >>

\* ProcessInstall with the skip-install flag ignored
ProcessInstallIgnoresSkip ==
    /\ pc = "install"
    /\ phaseLog' = Append(phaseLog, "install")
    /\ pc' = "install_run"
    /\ UNCHANGED << config, project, phasesDone, systemDepsChecked,
                    toolMissing, gitVars, cleaner, cleanLog, buildCmds,
                    fatalRaised, exitAs, configured, run, deps, inst, targetManager, make_args >>

\* process(): "if not self.config.skipInstall: self.install()"
ProcessInstall ==
    /\ pc = "install"
    /\ IF config.skipInstall
       THEN /\ pc' = "exit_with"
            /\ exitAs' = "returned"
            /\ UNCHANGED phaseLog
       ELSE /\ phaseLog' = Append(phaseLog, "install")
            /\ pc' = "install_run"
            /\ UNCHANGED exitAs
    /\ UNCHANGED << config, project, phasesDone, systemDepsChecked,
                    toolMissing, gitVars, cleaner, cleanLog, buildCmds,
                    fatalRaised, configured,
                    run, deps, inst, targetManager, make_args >>

\* Project.install: runMakeInstall, that is runMake("install", ...)
ProcessInstallRun ==
    /\ pc = "install_run"
    /\ \E exitCode \in ExitCodes :
         LET r == RunWithLogfileResult(exitCode) IN
         /\ RunBuildCmd("install", r)
         /\ pc' = "exit_with"
         /\ IF r = "fatal"
            THEN /\ exitAs' = "fatal"
                 /\ fatalRaised' = TRUE
                 /\ UNCHANGED phasesDone
            ELSE /\ exitAs' = "returned"
                 /\ phasesDone' = phasesDone \cup {"install"}
                 /\ UNCHANGED fatalRaised
    /\ UNCHANGED << config, project, phaseLog, systemDepsChecked,
                    toolMissing, gitVars, cleaner, cleanLog, configured,
                    run, deps, inst, targetManager, make_args >>

\* compile() is a public method: a caller other than process() (a subclass,
\* a test driver) invokes it on the constructed project
CallCompile ==
    /\ pc = "created"
    /\ \E exitCode \in ExitCodes :
         LET r == RunWithLogfileResult(exitCode) IN
         /\ RunBuildCmd("all", r)
         /\ fatalRaised' = (r = "fatal")
         /\ pc' = IF r = "fatal" THEN "compile_failed" ELSE "compile_returned"
    /\ UNCHANGED << config, project, phaseLog, phasesDone,
                    systemDepsChecked, toolMissing, gitVars, cleaner,
                    cleanLog, exitAs, configured,
                    run, deps, inst, targetManager, make_args >>

----------------------------------------------------------------------------
(* The lifecycle specification *)

Next ==
    \/ ProcessUpdate
    \/ EnsureGitRepoIsCloned
    \/ GitDiff
    \/ GitStash
    \/ GitPull
    \/ GitSubmoduleUpdate
    \/ GitStashPop
    \/ GitCheckoutRevision
    \/ ProcessCheckDeps
    \/ ProcessClean
    \/ CleanerFinish
    \/ ProcessConfigure
    \/ ProcessConfigureRun
    \/ ProcessCompile
    \/ ProcessCompileRun
    \/ ProcessInstall
    \/ ProcessInstallRun
    \/ ProcessExitWith
    \/ CallCompile

Spec == Init /\ [][Next]_vars

----------------------------------------------------------------------------
(* SimpleProject.runWithLogfile and __runProcessWithFilteredOutput          *)
(*                                                                         *)
(* run.rpc is the position of the calling thread, run.tpc that of the      *)
(* stderr thread (_handleStdErr).  The child's output is a sequence of     *)
(* lines <<"out", i>> on its stdout and <<"err", i>> on its stderr.        *)

\* the command line that runWithLogfile writes at the top of the log
LogHeader == << "header", 0 >>

\* what an earlier run left in the log file, and the b"\n\n" that is written
\* in front of the command line when appendToLogfile is set
OldLogLine == << "old", 0 >>

LogSeparator == << "separator", 0 >>

\* the stdoutFilter a caller passes: none, _lineNotImportantStdoutFilter
\* (self._stdoutFilter, the default of runMake) or _showLineStdoutFilter
StdoutFilters == { "none", "notImportant", "showLine" }

NoError == [ kind |-> "none", cmdLine |-> FALSE, logPath |-> FALSE ]

OutLine(i) == << "out", i >>
ErrLine(i) == << "err", i >>

ChildStdout(n) == [ i \in 1..n |-> OutLine(i) ]
ChildStderr(n) == [ i \in 1..n |-> ErrLine(i) ]

RunConfigValues ==
    [ pretend : BOOLEAN, noLogfile : BOOLEAN, quiet : BOOLEAN,
      verbose : BOOLEAN,
      force : {FALSE}, clean : {FALSE}, skipUpdate : {FALSE},
      skipConfigure : {FALSE}, configureOnly : {FALSE},
      skipInstall : {FALSE}, forceConfigure : {FALSE} ]

\* filter: the stdoutFilter the caller passed; exitCode: the exit code of the
\* child; outPipe, errPipe: what is unread on the child's pipes;
\* appendToLogfile: the keyword argument; logExists: the log file is there
\* from an earlier run, log: its content; lastStdoutLineCanBeOverwritten:
\* self._lastStdoutLineCanBeOverwritten; onProgressLine: the terminal's
\* cursor stands behind a line written without its newline; flagAccesses:
\* the reads and writes of the flag, with the holder of the lock and whether
\* the stderr thread was alive; errWrittenOn: the value of onProgressLine
\* under each chunk _handleStdErr wrote to the terminal, and whether the
\* flag was set when the handler began
RunInitial(filter, exitCode, nOut, nErr, appendToLogfile, logExists, flag) ==
    [ rpc |-> "start", tpc |-> "none", lock |-> "free",
      filter |-> filter, exitCode |-> exitCode,
      nOut |-> nOut, nErr |-> nErr,
      outPipe |-> ChildStdout(nOut), errPipe |-> ChildStderr(nErr),
      curOut |-> << >>, curErr |-> << >>,
      appendToLogfile |-> appendToLogfile, logExists |-> logExists,
      logOpen |-> FALSE,
      log |-> IF logExists THEN << OldLogLine >> ELSE << >>,
      lastStdoutLineCanBeOverwritten |-> flag, onProgressLine |-> FALSE,
      flagAccesses |-> {}, errWrittenOn |-> {},
      started |-> FALSE, joined |-> FALSE, childRan |-> FALSE,
      raisedIn |-> {}, leftover |-> [ out |-> << >>, err |-> << >> ],
      error |-> NoError ]

InitRun ==
    /\ config \in RunConfigValues
    /\ project = [ repository |-> TRUE, skipGitSubmodules |-> FALSE,
                   gitRevision |-> FALSE, gitBranch |-> FALSE,
                   inPlace |-> FALSE, configureCommand |-> TRUE ]
    /\ tree \in { t \in TreeValues : t.exists /\ t.mods = "none" }
    /\ deps = DepsIdle
    /\ pc = "idle"
    /\ InitLifecycle
    /\ NoSideCalls
    /\ \E filter \in StdoutFilters, exitCode \in ExitCodes,
          nOut \in 0..MaxOutLines, nErr \in 0..MaxErrLines,
          appendToLogfile \in BOOLEAN, logExists \in BOOLEAN,
          flag \in BOOLEAN :
         run = RunInitial(filter, exitCode, nOut, nErr, appendToLogfile,
                          logExists, flag)

\* "if self.config.verbose: stdoutFilter = None"
StdoutFilterUsed == run.filter # "none" /\ ~config.verbose

\* the log file when it has been opened in append mode and the command line
\* has been written: "if ... logfilePath.is_file() and not appendToLogfile:
\* logfilePath.unlink()", then 'if appendToLogfile: logfile.write(b"\n\n")'
LogOpened ==
    (IF run.logExists /\ ~run.appendToLogfile THEN << >> ELSE run.log)
        \o (IF run.appendToLogfile THEN << LogSeparator >> ELSE << >>)
        \o << LogHeader >>

\* one read or write of self._lastStdoutLineCanBeOverwritten
FlagAccess(by) ==
    [ by |-> by, lock |-> run.lock,
      threadAlive |-> run.tpc \notin {"none", "dead"} ]

\* check_call_handle_noexec(args, cwd, stdout, stderr, env): it is handed the
\* argument vector, not cmdStr and not the path of the log file
CheckCallError ==
    [ kind |-> "CalledProcessError", cmdLine |-> TRUE, logPath |-> FALSE ]

\* "raise SystemExit(message)": cmdStr, and the log file's name if there is one
SystemExitError(logfile) ==
    [ kind |-> "SystemExit", cmdLine |-> TRUE, logPath |-> logfile ]

EndedAs(exitCode) == IF exitCode # 0 THEN "raised" ELSE "returned"

\* runWithLogfile up to the point where the child is running: pretend mode,
\* the no-logfile paths, the log header, the quiet path, popen
RunWithLogfile ==
    /\ run.rpc = "start"
    /\ run' =
         IF config.pretend
         THEN [ run EXCEPT !.rpc = "returned" ]
         ELSE IF config.noLogfile
         THEN IF ~StdoutFilterUsed
              THEN \* the child is connected to the terminal
                   [ run EXCEPT !.rpc = EndedAs(run.exitCode),
                                !.childRan = TRUE,
                                !.outPipe = << >>, !.errPipe = << >>,
                                !.error = IF run.exitCode # 0
                                          THEN CheckCallError ELSE NoError ]
              ELSE \* only stdout is piped, stderr stays on the terminal
                   [ run EXCEPT !.rpc = "spawn", !.childRan = TRUE,
                                !.errPipe = << >> ]
         ELSE IF config.quiet
         THEN \* stdout and stderr of the child are the log file
              [ run EXCEPT !.rpc = EndedAs(run.exitCode),
                           !.childRan = TRUE,
                           !.log = LogOpened \o run.outPipe \o run.errPipe,
                           !.outPipe = << >>, !.errPipe = << >>,
                           !.error = IF run.exitCode # 0
                                     THEN CheckCallError ELSE NoError ]
         ELSE [ run EXCEPT !.rpc = "spawn", !.childRan = TRUE,
                           !.logOpen = TRUE, !.log = LogOpened ]
    /\ UNCHANGED lifecycleVars

\* "if logfile:" the stderr thread is created and started
MainStartThread ==
    /\ run.rpc = "spawn"
    /\ run' = IF run.logOpen
              THEN [ run EXCEPT !.rpc = "loop", !.tpc = "read",
                                !.started = TRUE ]
              ELSE [ run EXCEPT !.rpc = "loop" ]
    /\ UNCHANGED lifecycleVars

\* "for line in proc.stdout:" the next line, or the end of the stream
MainReadLine ==
    /\ run.rpc = "loop"
    /\ run' = IF run.outPipe = << >>
              THEN [ run EXCEPT !.rpc = "wait" ]
              ELSE [ run EXCEPT !.rpc = "acquire",
                                !.curOut = Head(run.outPipe),
                                !.outPipe = Tail(run.outPipe) ]
    /\ UNCHANGED lifecycleVars

\* "with logfileLock:"
MainAcquire ==
    /\ run.rpc = "acquire"
    /\ run.lock = "free"
    /\ run' = [ run EXCEPT !.rpc = "write_log", !.lock = "main" ]
    /\ UNCHANGED lifecycleVars

\* "if logfile: logfile.write(line)"
MainWriteLog ==
    /\ run.rpc = "write_log"
    /\ run' = [ run EXCEPT !.rpc = "write_term",
                           !.log = IF run.logOpen
                                   THEN Append(run.log, run.curOut)
                                   ELSE run.log ]
    /\ UNCHANGED lifecycleVars

\* the line goes to the filter or to the terminal; the with-block ends.
\* _lineNotImportantStdoutFilter reads the flag, writes the line without its
\* newline and sets the flag; _showLineStdoutFilter reads the flag, writes a
\* newline if it is set, then the line, and clears the flag
MainWriteTerminal ==
    /\ run.rpc = "write_term"
    /\ run' = IF StdoutFilterUsed
              THEN [ run EXCEPT
                       !.rpc = "loop", !.lock = "free", !.curOut = << >>,
                       !.lastStdoutLineCanBeOverwritten =
                            (run.filter = "notImportant"),
                       !.onProgressLine = (run.filter = "notImportant"),
                       !.flagAccesses = run.flagAccesses \cup {FlagAccess("main")} ]
              ELSE [ run EXCEPT
                       !.rpc = "loop", !.lock = "free", !.curOut = << >>,
                       !.onProgressLine = FALSE ]
    /\ UNCHANGED lifecycleVars

\* MainWaitAndJoin without the join
MainWaitNoJoin ==
    /\ run.rpc = "wait"
    /\ run' = [ run EXCEPT !.rpc = "communicate" ]
    /\ UNCHANGED lifecycleVars

\* "retcode = proc.wait()" and "if stderrThread: stderrThread.join()":
\* join returns once the thread has ended
MainWaitAndJoin ==
    /\ run.rpc = "wait"
    /\ run.started => run.tpc = "dead"
    /\ run' = [ run EXCEPT !.rpc = "communicate", !.joined = run.started ]
    /\ UNCHANGED lifecycleVars

\* "remainingErr, remainingOut = proc.communicate()": communicate returns
\* (stdout_data, stderr_data); then the two "if" blocks write to the log
LogAfterCommunicate(log, logfile, stdoutData, stderrData) ==
    LET remainingErr == stdoutData
        remainingOut == stderrData
        log1 == IF remainingErr # << >> /\ logfile
                THEN log \o remainingOut ELSE log
    IN  IF remainingOut # << >> /\ logfile
        THEN log1 \o remainingErr ELSE log1

\* the rest of __runProcessWithFilteredOutput: the leftover data and the
\* exit code
MainCommunicate ==
    /\ run.rpc = "communicate"
    /\ run' = [ run EXCEPT
                  !.rpc = EndedAs(run.exitCode),
                  !.flagAccesses =
                       IF StdoutFilterUsed
                       THEN run.flagAccesses \cup {FlagAccess("main")}
                       ELSE run.flagAccesses,
                  !.onProgressLine =
                       IF StdoutFilterUsed /\ run.lastStdoutLineCanBeOverwritten
                       THEN FALSE ELSE run.onProgressLine,
                  !.leftover = [ out |-> run.outPipe, err |-> run.errPipe ],
                  !.log = LogAfterCommunicate(run.log, run.logOpen,
                                              run.outPipe, run.errPipe),
                  !.outPipe = << >>, !.errPipe = << >>,
                  !.error = IF run.exitCode # 0
                            THEN SystemExitError(run.logOpen) ELSE NoError ]
    /\ UNCHANGED lifecycleVars

\* _handleStdErr, "for errLine in stream:" the next line, or the end of the
\* stream, at which the thread ends
ErrReadLine ==
    /\ run.tpc = "read"
    /\ run' = IF run.errPipe = << >>
              THEN [ run EXCEPT !.tpc = "dead" ]
              ELSE [ run EXCEPT !.tpc = "acquire",
                                !.curErr = Head(run.errPipe),
                                !.errPipe = Tail(run.errPipe) ]
    /\ UNCHANGED lifecycleVars

\* ErrAcquire without the lock: the handler writes unguarded
ErrNoLock ==
    /\ run.tpc = "acquire"
    /\ run' = [ run EXCEPT !.tpc = "write_term" ]
    /\ UNCHANGED lifecycleVars

\* "with fileLock:"
ErrAcquire ==
    /\ run.tpc = "acquire"
    /\ run.lock = "free"
    /\ run' = [ run EXCEPT !.tpc = "write_term", !.lock = "err" ]
    /\ UNCHANGED lifecycleVars

\* ErrWriteTerminal without the newline and without the flag cleared: the
\* chunk is written where the cursor stands
ErrWriteTerminalKeepsLine ==
    /\ run.tpc = "write_term"
    /\ run' = [ run EXCEPT
                  !.tpc = "write_log",
                  !.onProgressLine = FALSE,
                  !.errWrittenOn = run.errWrittenOn \cup
                       { [ flagWasSet |-> run.lastStdoutLineCanBeOverwritten,
                           onProgressLine |-> run.onProgressLine ] },
                  !.flagAccesses = run.flagAccesses \cup {FlagAccess("err")} ]
    /\ UNCHANGED lifecycleVars

\* the writes to the terminal: "if project._lastStdoutLineCanBeOverwritten:"
\* a newline is written and the flag cleared, then the chunk is written.
\* Only ValueError is caught: an error that
\* flushStdio re-raises (a BlockingIOError other than EWOULDBLOCK) leaves the
\* with-block, releasing the lock, and ends the thread
ErrWriteTerminal ==
    /\ run.tpc = "write_term"
    /\ \E ioError \in { "none", "newline", "chunk" } :
         /\ ioError = "newline" => run.lastStdoutLineCanBeOverwritten
         /\ run' =
              IF ioError = "newline"
              THEN \* the flush of the newline raises: the flag stays set
                   [ run EXCEPT !.tpc = "dead", !.lock = "free",
                       !.raisedIn = run.raisedIn \cup {run.curErr},
                       !.curErr = << >>,
                       !.onProgressLine = FALSE,
                       !.flagAccesses = run.flagAccesses \cup {FlagAccess("err")} ]
              ELSE [ run EXCEPT
                       !.tpc = IF ioError = "chunk" THEN "dead" ELSE "write_log",
                       !.lock = IF ioError = "chunk" THEN "free" ELSE run.lock,
                       !.raisedIn = IF ioError = "chunk"
                                    THEN run.raisedIn \cup {run.curErr}
                                    ELSE run.raisedIn,
                       !.curErr = IF ioError = "chunk" THEN << >> ELSE run.curErr,
                       !.lastStdoutLineCanBeOverwritten = FALSE,
                       !.onProgressLine = FALSE,
                       !.errWrittenOn = run.errWrittenOn \cup
                            { [ flagWasSet |-> run.lastStdoutLineCanBeOverwritten,
                                onProgressLine |->
                                   run.onProgressLine
                                   /\ ~run.lastStdoutLineCanBeOverwritten ] },
                       !.flagAccesses = run.flagAccesses \cup {FlagAccess("err")} ]
    /\ UNCHANGED lifecycleVars

\* "if not project.config.noLogfile: outfile.write(errLine)"; the with-block
\* ends
ErrWriteLog ==
    /\ run.tpc = "write_log"
    /\ run' = [ run EXCEPT !.tpc = "read", !.lock = "free",
                           !.curErr = << >>,
                           !.log = IF ~config.noLogfile
                                   THEN Append(run.log, run.curErr)
                                   ELSE run.log ]
    /\ UNCHANGED lifecycleVars

NextRun ==
    \/ RunWithLogfile
    \/ MainStartThread
    \/ MainReadLine
    \/ MainAcquire
    \/ MainWriteLog
    \/ MainWriteTerminal
    \/ MainWaitAndJoin
    \/ MainCommunicate
    \/ ErrReadLine
    \/ ErrAcquire
    \/ ErrWriteTerminal
    \/ ErrWriteLog

SpecRun == InitRun /\ [][NextRun]_vars

----------------------------------------------------------------------------
(* queryYesNo called with every combination of arguments *)

QueryConfigValues ==
    [ pretend : BOOLEAN, force : BOOLEAN,
      noLogfile : {FALSE}, quiet : {FALSE}, verbose : {FALSE},
      clean : {FALSE}, skipUpdate : {FALSE}, skipConfigure : {FALSE},
      configureOnly : {FALSE}, skipInstall : {FALSE},
      forceConfigure : {FALSE} ]

InitQuery ==
    /\ config \in QueryConfigValues
    /\ project = [ repository |-> TRUE, skipGitSubmodules |-> FALSE,
                   gitRevision |-> FALSE, gitBranch |-> FALSE,
                   inPlace |-> FALSE, configureCommand |-> TRUE ]
    /\ tree \in { t \in TreeValues : t.exists /\ t.mods = "none" }
    /\ pc = "idle"
    /\ InitLifecycle
    /\ NoSideCalls
    /\ run = RunIdle
    /\ deps = DepsIdle

\* one call self.queryYesNo(message, defaultResult=..., forceResult=...)
CallQueryYesNo ==
    /\ pc = "idle"
    /\ Len(prompts) < MaxPrompts
    /\ \E defaultResult \in BOOLEAN, forceResult \in BOOLEAN,
          isatty \in BOOLEAN, answer \in Answers :
         prompts' = Append(prompts, Prompt("query", defaultResult,
                                           forceResult, isatty, answer))
    /\ UNCHANGED << config, project, pc, phaseLog, phasesDone,
                    systemDepsChecked, toolMissing, gitLog, hasChanges,
                    diffStat, stashLog, cleaner, cleanLog, buildCmds,
                    fatalRaised, exitAs, tree, syncArgs, configured,
                    run, deps, inst, targetManager, make_args >>

NextQuery == CallQueryYesNo

SpecQuery == InitQuery /\ [][NextQuery]_vars

----------------------------------------------------------------------------
(* checkSystemDependencies, tool by tool *)

\* the installInstructions of a required tool: None, a string, a callable
\* that returns a string, a callable that returns nothing
Hints == { "none", "text", "callable", "callableNone" }

\* lines 380-383: a callable is called, and without instructions the hint is
\* "Try installing `tool` using your system package manager."
InstallHint(h) ==
    LET installInstructions ==
            CASE h = "callable" -> "text of the call"
              [] h = "callableNone" -> "none"
              [] OTHER -> h
    IN  IF installInstructions = "none"
        THEN "try installing with the package manager"
        ELSE installInstructions

\* self.__requiredSystemTools in dictionary order; found: shutil.which(tool)
ToolDecls == SeqsUpTo([ found : BOOLEAN, hint : Hints ], MaxTools)

DepsConfigValues ==
    [ pretend : BOOLEAN, force : {FALSE},
      noLogfile : {FALSE}, quiet : {FALSE}, verbose : {FALSE},
      clean : {FALSE}, skipUpdate : {FALSE}, skipConfigure : {FALSE},
      configureOnly : {FALSE}, skipInstall : {FALSE},
      forceConfigure : {FALSE} ]

\* i: the position of the loop in the dictionary; examined: the tools given
\* to shutil.which so far; errors: the dependencyError calls so far
DepsInitial(tools) ==
    [ dpc |-> "loop", tools |-> tools, i |-> 1, examined |-> << >>,
      errors |-> << >> ]

InitDeps ==
    /\ config \in DepsConfigValues
    /\ project = [ repository |-> TRUE, skipGitSubmodules |-> FALSE,
                   gitRevision |-> FALSE, gitBranch |-> FALSE,
                   inPlace |-> FALSE, configureCommand |-> TRUE ]
    /\ tree \in { t \in TreeValues : t.exists /\ t.mods = "none" }
    /\ pc = "idle"
    /\ InitLifecycle
    /\ NoSideCalls
    /\ run = RunIdle
    /\ \E tools \in ToolDecls : deps = DepsInitial(tools)

depsFrame == << config, project, pc, phaseLog, phasesDone, toolMissing,
               gitLog, hasChanges, diffStat, stashLog, cleaner, cleanLog,
               buildCmds, exitAs, tree, prompts, syncArgs, configured, run,
               inst, targetManager, make_args >>

\* CheckNextTool with the fatal error of a missing tool swallowed
CheckNextToolGoesOn ==
    /\ deps.dpc = "loop"
    /\ deps.i <= Len(deps.tools)
    /\ LET tool == deps.tools[deps.i]
           seen == Append(deps.examined, deps.i)
       IN  IF tool.found
           THEN /\ deps' = [ deps EXCEPT !.i = deps.i + 1, !.examined = seen ]
                /\ UNCHANGED systemDepsChecked
           ELSE /\ systemDepsChecked' = TRUE
                /\ deps' = [ deps EXCEPT
                      !.i = deps.i + 1, !.examined = seen,
                      !.errors = Append(deps.errors,
                          [ tool |-> deps.i, hint |-> InstallHint(tool.hint) ]) ]
    /\ UNCHANGED << depsFrame, fatalRaised >>

\* one round of "for (tool, installInstructions) in ...items()": shutil.which,
\* and for a missing tool dependencyError, which sets _systemDepsChecked and
\* calls fatalError
CheckNextTool ==
    /\ deps.dpc = "loop"
    /\ deps.i <= Len(deps.tools)
    /\ LET tool == deps.tools[deps.i]
           seen == Append(deps.examined, deps.i)
           errs == Append(deps.errors,
                          [ tool |-> deps.i, hint |-> InstallHint(tool.hint) ])
       IN  IF tool.found
           THEN /\ deps' = [ deps EXCEPT !.i = deps.i + 1, !.examined = seen ]
                /\ UNCHANGED << systemDepsChecked, fatalRaised >>
           ELSE /\ systemDepsChecked' = TRUE
                /\ IF FatalErrorExits(FALSE)
                   THEN /\ deps' = [ deps EXCEPT !.dpc = "raised",
                                       !.examined = seen, !.errors = errs ]
                        /\ fatalRaised' = TRUE
                   ELSE /\ deps' = [ deps EXCEPT !.i = deps.i + 1,
                                       !.examined = seen, !.errors = errs ]
                        /\ UNCHANGED fatalRaised
    /\ UNCHANGED depsFrame

\* the loop is over: "self._systemDepsChecked = True"
CheckReturn ==
    /\ deps.dpc = "loop"
    /\ deps.i > Len(deps.tools)
    /\ deps' = [ deps EXCEPT !.dpc = "returned" ]
    /\ systemDepsChecked' = TRUE
    /\ UNCHANGED << depsFrame, fatalRaised >>

NextDeps ==
    \/ CheckNextTool
    \/ CheckReturn

SpecDeps == InitDeps /\ [][NextDeps]_vars

----------------------------------------------------------------------------
(* ProjectSubclassDefinitionHook: the registration of a class when it is    *)
(* defined.  Names are sequences of tokens: the target "a-mips" is          *)
(* <<"a", "-", "mips">>.                                                    *)

\* CrossCompileTarget: the value of each member
CrossCompileTargets == { "native", "mips", "cheri" }

\* str.lower(), token by token
LowerToken(c) ==
    CASE c = "A" -> "a" [] c = "B" -> "b" [] c = "C" -> "c" [] c = "D" -> "d"
      [] OTHER -> c

LowerName(s) == [ i \in 1..Len(s) |-> LowerToken(s[i]) ]

\* str.replace("_", "-")
ReplaceUnderscore(s) == [ i \in 1..Len(s) |-> IF s[i] = "_" THEN "-" ELSE s[i] ]

\* a class statement.  name: the class name, build: it starts with "Build",
\* stem: what follows; hasProjectName, hasTarget: the class body assigns the
\* attribute; doNotAddToTargets: the value the class body assigns, "True" or
\* "False", "undefined" if it assigns none; dependenciesMustBeBuilt: the value in the class body;
\* dependencies: cls.dependencies; hasArchs: hasattr(cls,
\* "supported_architectures"); an attribute that is None is << >>
ClassStatement(build, stem, hasProjectName, projectName, hasTarget, target, doNotAddToTargets, dependenciesMustBeBuilt, dependencies, hasArchs, archs, appendCheriBitsToBuildDir) ==
    [ build |-> build, stem |-> stem,
      hasProjectName |-> hasProjectName, projectName |-> projectName,
      hasTarget |-> hasTarget, target |-> target,
      doNotAddToTargets |-> doNotAddToTargets,
      dependenciesMustBeBuilt |-> dependenciesMustBeBuilt,
      dependencies |-> dependencies,
      hasArchs |-> hasArchs, supported_architectures |-> archs,
      appendCheriBitsToBuildDir |-> appendCheriBitsToBuildDir,
      crossCompileTarget |-> "none", synthetic |-> FALSE ]

\* lines 76-85: the project name of the class, None if it cannot be inferred
HookProjectName(cls) ==
    IF cls.hasProjectName THEN cls.projectName
    ELSE IF cls.build THEN ReplaceUnderscore(cls.stem)
    ELSE << >>

\* lines 88-93: the target name of the class
HookTargetName(cls) ==
    IF cls.hasTarget THEN cls.target
    ELSE IF HookProjectName(cls) # << >> THEN LowerName(HookProjectName(cls))
    ELSE << >>

\* the class object after lines 76-93 have set cls.projectName and cls.target
HookClass(cls) ==
    [ cls EXCEPT !.projectName = HookProjectName(cls),
                 !.target = HookTargetName(cls) ]

\* line 73: "if clsdict.get("doNotAddToTargets"): return"
HookSkipsClass(cls) == cls.doNotAddToTargets = "True"

\* lines 95-101: the two sys.exit calls
HookExits(cls) ==
    \/ HookTargetName(cls) = << >>
    \/ cls.dependenciesMustBeBuilt /\ cls.dependencies = << >>

\* line 111: targetName + "-" + arch.value
ArchTargetName(targetName, arch) == targetName \o << "-", arch >>

\* lines 112-117: the class created for one architecture
ArchClass(cls, arch) ==
    [ HookClass(cls) EXCEPT
        !.crossCompileTarget = arch, !.doNotAddToTargets = "True",
        !.target = ArchTargetName(HookTargetName(cls), arch),
        !.synthetic = TRUE ]

\* Target(name, projectClass, dependencies=...) and
\* MultiArchTarget(name, projectClass, arch, dependencies=...)
NewTarget(kind, name, projectClass, arch, dependencies) ==
    [ kind |-> kind, name |-> name, projectClass |-> projectClass,
      arch |-> arch, dependencies |-> dependencies ]

\* ArchTargets with the dependency names suffixed by the architecture
ArchTargetsResuffixed(cls) ==
    [ i \in 1..Len(cls.supported_architectures) |->
        LET arch == cls.supported_architectures[i] IN
        NewTarget("MultiArchTarget", ArchTargetName(HookTargetName(cls), arch),
                  ArchClass(cls, arch), arch,
                  { ArchTargetName(d, arch) : d \in Range(cls.dependencies) }) ]

\* lines 108-118: the targets of the loop over cls.supported_architectures
ArchTargets(cls) ==
    [ i \in 1..Len(cls.supported_architectures) |->
        LET arch == cls.supported_architectures[i] IN
        NewTarget("MultiArchTarget", ArchTargetName(HookTargetName(cls), arch),
                  ArchClass(cls, arch), arch, Range(cls.dependencies)) ]

\* lines 102-121: the targets handed to targetManager.addTarget, in order
HookTargets(cls) ==
    IF HookSkipsClass(cls) THEN << >>
    ELSE IF HookExits(cls) THEN << >>
    ELSE IF cls.hasArchs
    THEN << NewTarget("MultiArchTarget", HookTargetName(cls), HookClass(cls),
                      "none", Range(cls.dependencies)) >>
         \o ArchTargets(cls)
    ELSE << NewTarget("Target", HookTargetName(cls), HookClass(cls), "none",
                      Range(cls.dependencies)) >>

\* targetManager.addTarget for each target of the sequence in turn: a name
\* that is registered already ends the registration in a DuplicateTargetError
RECURSIVE AddTargets(_, _)
AddTargets(tm, targets) ==
    IF targets = << >> THEN tm
    ELSE LET t == Head(targets) IN
         IF t.name \in DOMAIN tm.targetMap
         THEN [ tm EXCEPT !.tpc = "raised", !.error = "DuplicateTargetError" ]
         ELSE AddTargets(
                [ tm EXCEPT !.targetMap =
                    [ n \in DOMAIN tm.targetMap \cup { t.name } |->
                        IF n = t.name THEN t ELSE tm.targetMap[n] ] ],
                Tail(targets))

\* no class defined yet.  defined: the class statement run last with the
\* targets it handed to addTarget; resolved, result: the target whose
\* dependencies were asked for last, and the outcome; buildDirs: the default
\* build directory of each registered target
TargetsInitial ==
    [ tpc |-> "defining", targetMap |-> << >>, defined |-> << >>,
      error |-> "none", resolved |-> << >>,
      result |-> [ kind |-> "none", names |-> << >>, error |-> "none" ],
      buildDirs |-> << >> ]

targetsFrame == << config, project, pc, phaseLog, phasesDone,
                  systemDepsChecked, toolMissing, gitLog, hasChanges, diffStat,
                  stashLog, cleaner, cleanLog, buildCmds, fatalRaised, exitAs,
                  tree, prompts, syncArgs, configured, run, deps, inst,
                  make_args >>

\* a class statement is executed: the metaclass __init__ runs
DefineClass(cls) ==
    /\ targetManager.tpc = "defining"
    /\ LET targets == HookTargets(cls)
           tm == [ targetManager EXCEPT !.defined =
                     << [ cls |-> cls, targets |-> targets,
                          before |-> DOMAIN targetManager.targetMap ] >> ]
       IN  IF ~HookSkipsClass(cls) /\ HookExits(cls)
           THEN targetManager' = [ tm EXCEPT !.tpc = "raised",
                                              !.error = "SystemExit" ]
           ELSE targetManager' = AddTargets(tm, targets)
    /\ UNCHANGED targetsFrame

----------------------------------------------------------------------------
(* SimpleProject.allDependencyNames *)

\* AppendNew without the membership test
AppendAlways(result, x) == Append(result, x)

\* "if x not in result: result.append(x)"
AppendNew(result, x) ==
    IF x \in Range(result) THEN result ELSE Append(result, x)

\* "for r in recursive_deps: if r not in result: result.append(r)"
RECURSIVE ExtendNew(_, _)
ExtendNew(result, names) ==
    IF names = << >> THEN result
    ELSE ExtendNew(AppendNew(result, Head(names)), Tail(names))

Returned(names) == [ kind |-> "returned", names |-> names, error |-> "none" ]

Raised(error) == [ kind |-> "raised", names |-> << >>, error |-> error ]

\* LookupClass with a name that is not registered taken for a target
\* without dependencies
LookupClassLenient(targetMap, dep) ==
    IF dep \in DOMAIN targetMap
    THEN [ found |-> TRUE, projectClass |-> targetMap[dep].projectClass ]
    ELSE [ found |-> TRUE, projectClass |-> [ dependencies |-> << >> ] ]

\* targetManager.targetMap[dep].projectClass: the lookup of a name that is
\* not registered raises KeyError
LookupClass(targetMap, dep) ==
    IF dep \in DOMAIN targetMap
    THEN [ found |-> TRUE, projectClass |-> targetMap[dep].projectClass ]
    ELSE [ found |-> FALSE, projectClass |-> [ dependencies |-> << >> ] ]

\* the call cls.allDependencyNames() at the given depth of the call stack:
\* DependencyLoop is the for loop from its i-th round on.  The interpreter
\* ends a recursion deeper than its limit with a RecursionError
RECURSIVE allDependencyNamesAt(_, _, _), DependencyLoop(_, _, _, _, _)
allDependencyNamesAt(targetMap, cls, depth) ==
    IF depth > RecursionLimit THEN Raised("RecursionError")
    ELSE DependencyLoop(targetMap, cls.dependencies, 1, << >>, depth)

DependencyLoop(targetMap, dependencies, i, result, depth) ==
    IF i > Len(dependencies) THEN Returned(result)
    ELSE LET dep == dependencies[i]
             found == LookupClass(targetMap, dep)
             recursive_deps ==
                 allDependencyNamesAt(targetMap, found.projectClass, depth + 1)
         IN  IF ~found.found THEN Raised("KeyError")
             ELSE IF recursive_deps.kind = "raised" THEN recursive_deps
             ELSE DependencyLoop(targetMap, dependencies, i + 1,
                    ExtendNew(AppendNew(result, dep), recursive_deps.names),
                    depth)

allDependencyNames(targetMap, cls) == allDependencyNamesAt(targetMap, cls, 1)

----------------------------------------------------------------------------
(* the dependency graph: classes BuildA .. BuildD, defined in this order,  *)
(* each free to name any of the four targets as a dependency, and one call *)
(* of allDependencyNames                                                    *)

TargetStems == << <<"A">>, <<"B">>, <<"C">>, <<"D">> >>

TargetNames == { LowerName(s) : s \in Range(TargetStems) }

\* the dependencies declared by the registered targets, all in all
DeclaredEdges(targetMap) ==
    LET RECURSIVE Sum(_)
        Sum(S) == IF S = {} THEN 0
                  ELSE LET n == CHOOSE n \in S : TRUE IN
                       Len(targetMap[n].projectClass.dependencies)
                           + Sum(S \ { n })
    IN  Sum(DOMAIN targetMap)

\* class Build<stem>(SimpleProject): dependencies = [...]
GraphClass(stem, dependencies) ==
    ClassStatement(TRUE, stem, FALSE, << >>, FALSE, << >>, "undefined",
                   FALSE, dependencies, FALSE, << >>, FALSE)

TargetsConfigValues ==
    [ pretend : {FALSE}, force : {FALSE}, clean : {FALSE},
      skipUpdate : {FALSE}, skipConfigure : {FALSE}, configureOnly : {FALSE},
      skipInstall : {FALSE}, forceConfigure : {FALSE},
      noLogfile : {FALSE}, quiet : {FALSE}, verbose : {FALSE} ]

InitTargets ==
    /\ config \in TargetsConfigValues
    /\ project = [ repository |-> TRUE, skipGitSubmodules |-> FALSE,
                   gitRevision |-> FALSE, gitBranch |-> FALSE,
                   inPlace |-> FALSE, configureCommand |-> TRUE ]
    /\ tree \in { t \in TreeValues : t.exists /\ t.mods = "none" }
    /\ pc = "idle"
    /\ InitLifecycle
    /\ run = RunIdle
    /\ deps = DepsIdle
    /\ inst = InstIdle
    /\ make_args = MakeIdle
    /\ targetManager = TargetsInitial

\* the next class is defined
DefineGraphClass ==
    LET k == Cardinality(DOMAIN targetManager.targetMap) + 1 IN
    /\ k <= Len(TargetStems)
    /\ \E n \in 0..(MaxEdges - DeclaredEdges(targetManager.targetMap)) :
         \E dependencies \in [ 1..n -> TargetNames ] :
            DefineClass(GraphClass(TargetStems[k], dependencies))

\* the dependencies of a registered target are asked for
ResolveDependencies ==
    /\ targetManager.tpc = "defining"
    /\ \E name \in DOMAIN targetManager.targetMap :
         targetManager' = [ targetManager EXCEPT
            !.tpc = "resolved", !.resolved = name,
            !.result = allDependencyNames(targetManager.targetMap,
                           targetManager.targetMap[name].projectClass) ]
    /\ UNCHANGED targetsFrame

NextTargets ==
    \/ DefineGraphClass
    \/ ResolveDependencies

SpecTargets == InitTargets /\ [][NextTargets]_vars

----------------------------------------------------------------------------
(* _defaultBuildDir and Project.buildDirSuffix *)

\* Project.buildDirSuffix(config, target); target is "none" for None
buildDirSuffix(cls, target) ==
    IF target = "none"
    THEN LET append_bits ==
                 IF cls.target \in { <<"llvm">>, <<"qemu">> } /\ config.unified_sdk
                 THEN FALSE ELSE cls.appendCheriBitsToBuildDir
         IN  IF append_bits THEN << "-", config.cheriBitsStr, "-build" >>
             ELSE << "-build" >>
    ELSE IF target = "cheri" THEN << "-", config.cheriBitsStr, "-build" >>
    ELSE << "-", target, "-build" >>

\* _defaultBuildDir(config, project), relative to config.buildRoot; a project
\* name of None has no lower()
defaultBuildDir(cls) ==
    IF cls.projectName = << >>
    THEN [ ok |-> FALSE, path |-> << >> ]
    ELSE [ ok |-> TRUE,
           path |-> LowerName(cls.projectName)
                        \o buildDirSuffix(cls, cls.crossCompileTarget) ]

----------------------------------------------------------------------------
(* one class with every combination of the attributes the hook reads,      *)
(* defined after an optional plain class, and the build directories of the *)
(* targets it registered                                                    *)

ArchLists ==
    { s \in SeqsUpTo(CrossCompileTargets, MaxArchs) :
        \A i, j \in 1..Len(s) : s[i] = s[j] => i = j }

\* class [Build]A(Project) with or without projectName = "A", target =
\* "llvm", doNotAddToTargets, dependenciesMustBeBuilt, dependencies,
\* supported_architectures and appendCheriBitsToBuildDir
ArchClasses ==
    { ClassStatement(build, <<"A">>, hasProjectName,
                     IF hasProjectName THEN <<"A">> ELSE << >>,
                     hasTarget, IF hasTarget THEN <<"llvm">> ELSE << >>,
                     doNotAddToTargets, dependenciesMustBeBuilt, dependencies,
                     hasArchs, archs, appendCheriBitsToBuildDir) :
        build \in BOOLEAN, hasProjectName \in BOOLEAN, hasTarget \in BOOLEAN,
        doNotAddToTargets \in { "undefined", "True", "False" },
        dependenciesMustBeBuilt \in BOOLEAN,
        dependencies \in { << >>, << <<"c">>, <<"d">> >> },
        hasArchs \in { TRUE }, archs \in ArchLists,
        appendCheriBitsToBuildDir \in BOOLEAN }
    \cup
    { ClassStatement(build, <<"A">>, hasProjectName,
                     IF hasProjectName THEN <<"A">> ELSE << >>,
                     hasTarget, IF hasTarget THEN <<"llvm">> ELSE << >>,
                     doNotAddToTargets, dependenciesMustBeBuilt, dependencies,
                     FALSE, << >>, appendCheriBitsToBuildDir) :
        build \in BOOLEAN, hasProjectName \in BOOLEAN, hasTarget \in BOOLEAN,
        doNotAddToTargets \in { "undefined", "True", "False" },
        dependenciesMustBeBuilt \in BOOLEAN,
        dependencies \in { << >>, << <<"c">>, <<"d">> >> },
        appendCheriBitsToBuildDir \in BOOLEAN }

\* the plain classes that may have been defined before
PlainClasses ==
    { GraphClass(<<"A">>, << <<"b">> >>),
      ClassStatement(FALSE, <<"X">>, FALSE, << >>, TRUE,
                     <<"a", "-", "mips">>, "undefined", FALSE, << >>, FALSE,
                     << >>, FALSE) }

ArchConfigValues ==
    [ pretend : {FALSE}, force : {FALSE}, clean : {FALSE},
      skipUpdate : {FALSE}, skipConfigure : {FALSE}, configureOnly : {FALSE},
      skipInstall : {FALSE}, forceConfigure : {FALSE},
      noLogfile : {FALSE}, quiet : {FALSE}, verbose : {FALSE},
      cheriBitsStr : { "128", "256" }, unified_sdk : BOOLEAN ]

InitArch ==
    /\ config \in ArchConfigValues
    /\ project = [ repository |-> TRUE, skipGitSubmodules |-> FALSE,
                   gitRevision |-> FALSE, gitBranch |-> FALSE,
                   inPlace |-> FALSE, configureCommand |-> TRUE ]
    /\ tree \in { t \in TreeValues : t.exists /\ t.mods = "none" }
    /\ pc = "idle"
    /\ InitLifecycle
    /\ run = RunIdle
    /\ deps = DepsIdle
    /\ inst = InstIdle
    /\ make_args = MakeIdle
    /\ targetManager = TargetsInitial

DefinePlainClass ==
    /\ targetManager.defined = << >>
    /\ \E cls \in PlainClasses : DefineClass(cls)

DefineArchClass ==
    /\ \A i \in 1..Len(targetManager.defined) :
          targetManager.defined[i].cls \in PlainClasses
    /\ \E cls \in ArchClasses : DefineClass(cls)

\* the default build directory of every registered target is computed
ComputeBuildDirs ==
    /\ targetManager.tpc = "defining"
    /\ targetManager.defined # << >>
    /\ targetManager.defined[1].cls \notin PlainClasses
    /\ targetManager' = [ targetManager EXCEPT
          !.tpc = "built",
          !.buildDirs = [ n \in DOMAIN targetManager.targetMap |->
                            defaultBuildDir(targetManager.targetMap[n].projectClass) ] ]
    /\ UNCHANGED targetsFrame

NextArch ==
    \/ DefinePlainClass
    \/ DefineArchClass
    \/ ComputeBuildDirs

SpecArch == InitArch /\ [][NextArch]_vars

----------------------------------------------------------------------------
(* MakeOptions.  A string is a sequence of tokens: "-DFOO" is              *)
(* <<"-D", "FOO">>, "FOO=1" is <<"FOO", "=", "1">>.  An OrderedDict is a   *)
(* sequence of entries [k, v] in insertion order.                          *)

MakeCommandKinds ==
    { "DefaultMake", "GnuMake", "BsdMake", "Ninja", "CustomMakeTool" }

\* OrderedDict: "k in d", d[k], d[k] = v, del d[k], d.update(other)
DictHas(d, k) == \E i \in 1..Len(d) : d[i].k = k

DictGet(d, k) == d[CHOOSE i \in 1..Len(d) : d[i].k = k].v

DictSet(d, k, v) ==
    IF DictHas(d, k)
    THEN [ i \in 1..Len(d) |-> IF d[i].k = k THEN [ k |-> k, v |-> v ] ELSE d[i] ]
    ELSE Append(d, [ k |-> k, v |-> v ])

DictDel(d, k) ==
    LET Keep(e) == e.k # k IN SelectSeq(d, Keep)

\* DictUpdate with the entries of d winning over those of other
RECURSIVE DictUpdateKeepsOwn(_, _)
DictUpdateKeepsOwn(d, other) ==
    IF other = << >> THEN d
    ELSE DictUpdateKeepsOwn(
            IF DictHas(d, Head(other).k) THEN d
            ELSE DictSet(d, Head(other).k, Head(other).v),
            Tail(other))

RECURSIVE DictUpdate(_, _)
DictUpdate(d, other) ==
    IF other = << >> THEN d
    ELSE DictUpdate(DictSet(d, Head(other).k, Head(other).v), Tail(other))

\* str.startswith and str.strip
StrStartsWith(s, prefix) ==
    Len(prefix) <= Len(s) /\ SubSeq(s, 1, Len(prefix)) = prefix

RECURSIVE StrStrip(_)
StrStrip(s) ==
    IF s = << >> THEN s
    ELSE IF Head(s) = " " THEN StrStrip(Tail(s))
    ELSE IF s[Len(s)] = " " THEN StrStrip(SubSeq(s, 1, Len(s) - 1))
    ELSE s

\* a value passed to set(): a bool or a string
BoolValue(b) == [ isBool |-> TRUE, b |-> b, s |-> << >> ]

StrValue(s) == [ isBool |-> FALSE, b |-> FALSE, s |-> s ]

\* __do_set with str(v) applied to the bool itself
DoSetValueAsRepr(value) ==
    IF value.isBool THEN (IF value.b THEN <<"True">> ELSE <<"False">>)
    ELSE value.s

\* __do_set: 'v = "1" if v else "0"' for a bool, then str(v)
DoSetValue(value) ==
    IF value.isBool THEN (IF value.b THEN <<"1">> ELSE <<"0">>)
    ELSE value.s

\* MakeOptions(kind): the object after __init__
NewMakeOptions(kind) ==
    [ kind |-> kind, vars |-> << >>, with_options |-> << >>,
      flags |-> << >>, env_vars |-> << >> ]

\* _get_defined_var(name); the assertion fails for a kind that is neither
\* BSD make nor GNU make
GetDefinedVar(kind, name) ==
    IF kind = "BsdMake" THEN [ ok |-> TRUE, s |-> <<"-D">> \o name ]
    ELSE IF kind = "GnuMake" THEN [ ok |-> TRUE, s |-> name \o <<"=", "1">> ]
    ELSE [ ok |-> FALSE, s |-> << >> ]

\* the first loop of all_commandline_args
VarArg(kind, e) ==
    IF e.v = <<"1">> THEN GetDefinedVar(kind, e.k)
    ELSE [ ok |-> TRUE, s |-> e.k \o <<"=">> \o e.v ]

\* the second loop of all_commandline_args
WithOptionArg(kind, e) ==
    LET defined == GetDefinedVar(kind, IF e.v THEN <<"WITH_">> ELSE <<"WITHOUT_">>)
    IN  [ ok |-> defined.ok, s |-> defined.s \o e.k ]

\* all_commandline_args: ok is FALSE if an assertion failed; list is the
\* list the property returns
AllCommandlineArgs(o) ==
    LET varArgs == [ i \in 1..Len(o.vars) |-> VarArg(o.kind, o.vars[i]) ]
        withArgs == [ i \in 1..Len(o.with_options) |->
                        WithOptionArg(o.kind, o.with_options[i]) ]
        ok == /\ \A i \in 1..Len(varArgs) : varArgs[i].ok
              /\ \A i \in 1..Len(withArgs) : withArgs[i].ok
    IN  IF ok
        THEN [ ok |-> TRUE,
               list |-> [ i \in 1..Len(varArgs) |-> varArgs[i].s ]
                        \o [ i \in 1..Len(withArgs) |-> withArgs[i].s ]
                        \o o.flags ]
        ELSE [ ok |-> FALSE, list |-> << >> ]

\* the list object all_commandline_args returns: self._flags itself if
\* there is nothing else to return
ReturnedObjectSharesFlags(o) ==
    IF o.vars = << >> /\ o.with_options = << >> THEN "flags" ELSE "fresh"

\* the list object all_commandline_args returns: "result = []", a new list
ReturnedObject(o) == "fresh"

\* the test of remove_var on a flag
RemoveVarMatches(flag, variable) ==
    \/ StrStrip(flag) = <<"-D">> \o variable
    \/ StrStartsWith(flag, variable \o <<"=">>)

\* remove_var with only the first matching flag removed
RemoveVarFirstFlagOnly(o, variable) ==
    LET first == { i \in 1..Len(o.flags) :
                     /\ RemoveVarMatches(o.flags[i], variable)
                     /\ \A j \in 1..(i - 1) :
                           ~RemoveVarMatches(o.flags[j], variable) }
        Keep(i) == i \notin first
        kept == { i \in 1..Len(o.flags) : Keep(i) }
        Nth(n) == CHOOSE i \in kept : Cardinality({ j \in kept : j < i }) = n - 1
    IN  [ o EXCEPT !.vars = DictDel(o.vars, variable),
                   !.with_options = DictDel(o.with_options, variable),
                   !.flags = [ n \in 1..Cardinality(kept) |-> o.flags[Nth(n)] ] ]

\* remove_var(variable): every "self._flags.remove(flag)" of the loop removes
\* one flag equal to a matching one, so all the matching flags are removed
RemoveVar(o, variable) ==
    LET Keep(flag) == ~RemoveVarMatches(flag, variable) IN
    [ o EXCEPT !.vars = DictDel(o.vars, variable),
               !.with_options = DictDel(o.with_options, variable),
               !.flags = SelectSeq(o.flags, Keep) ]

\* update(other) with the variables and with-options of self winning
UpdateKeepsOwn(o, other) ==
    [ o EXCEPT !.vars = DictUpdateKeepsOwn(o.vars, other.vars),
               !.with_options = DictUpdateKeepsOwn(o.with_options, other.with_options),
               !.flags = o.flags \o other.flags,
               !.env_vars = DictUpdate(o.env_vars, other.env_vars) ]

\* update(other)
Update(o, other) ==
    [ o EXCEPT !.vars = DictUpdate(o.vars, other.vars),
               !.with_options = DictUpdate(o.with_options, other.with_options),
               !.flags = o.flags \o other.flags,
               !.env_vars = DictUpdate(o.env_vars, other.env_vars) ]

----------------------------------------------------------------------------
(* two MakeOptions objects: self.make_args of a project, a, after the       *)
(* set_with_options and add_flags calls of its constructor, and a second    *)
(* one, b; then up to MaxCalls calls of set, remove_var and update on a,    *)
(* each followed by up to two readings of all_commandline_args              *)

VarNames == { <<"FOO">>, <<"BAR">> }

\* the arguments of the set() calls: FOO=True, FOO=False, FOO="x", BAR=True
SetArgs ==
    { [ name |-> <<"FOO">>, value |-> v ] :
        v \in { BoolValue(TRUE), BoolValue(FALSE), StrValue(<<"x">>) } }
    \cup { [ name |-> <<"BAR">>, value |-> BoolValue(TRUE) ] }

FlagValues == { <<"-D", "FOO">>, <<" ", "-D", "FOO", " ">>,
                <<"FOO", "=", "x">>, <<"-D", "FOO", "BAR">>, <<"-k">> }

WithOptionValues ==
    { << >>,
      << [ k |-> <<"MAN">>, v |-> FALSE ] >>,
      << [ k |-> <<"MAN">>, v |-> FALSE ], [ k |-> <<"FOO">>, v |-> TRUE ] >> }

\* the objects update() is given
OtherValues ==
    { [ NewMakeOptions("GnuMake") EXCEPT
          !.vars = << [ k |-> <<"FOO">>, v |-> <<"x">> ] >>,
          !.flags = << <<"-k">> >>,
          !.env_vars = << [ k |-> <<"DESTDIR">>, v |-> <<"x">> ] >> ],
      [ NewMakeOptions("BsdMake") EXCEPT
          !.vars = << [ k |-> <<"BAR">>, v |-> <<"1">> ],
                      [ k |-> <<"FOO">>, v |-> <<"0">> ] >>,
          !.with_options = << [ k |-> <<"FOO">>, v |-> FALSE ] >>,
          !.flags = << <<"-D", "FOO">>, <<"-k">> >> ] }

\* a, b: the objects; history: the calls made on a; before: a and b before
\* the last call; returned: the lists all_commandline_args returned since
\* the last call; held: the list object the caller of the last reading
\* holds, and whether the caller has appended to it
MakeInitial(a, b) ==
    [ mpc |-> "ready", a |-> a, b |-> b, history |-> << >>,
      before |-> [ a |-> a, b |-> b ], returned |-> << >>,
      held |-> [ object |-> "none", appended |-> FALSE ] ]

MakeConfigValues ==
    [ pretend : {FALSE}, force : {FALSE}, clean : {FALSE},
      skipUpdate : {FALSE}, skipConfigure : {FALSE}, configureOnly : {FALSE},
      skipInstall : {FALSE}, forceConfigure : {FALSE},
      noLogfile : {FALSE}, quiet : {FALSE}, verbose : {FALSE} ]

InitMake ==
    /\ config \in MakeConfigValues
    /\ project = [ repository |-> TRUE, skipGitSubmodules |-> FALSE,
                   gitRevision |-> FALSE, gitBranch |-> FALSE,
                   inPlace |-> FALSE, configureCommand |-> TRUE ]
    /\ tree \in { t \in TreeValues : t.exists /\ t.mods = "none" }
    /\ pc = "idle"
    /\ InitLifecycle
    /\ run = RunIdle
    /\ deps = DepsIdle
    /\ inst = InstIdle
    /\ targetManager = TargetsIdle
    /\ \E kind \in MakeCommandKinds, with_options \in WithOptionValues,
          flags \in SeqsUpTo(FlagValues, MaxFlags), b \in OtherValues :
         make_args = MakeInitial(
            [ NewMakeOptions(kind) EXCEPT !.with_options = with_options,
                                          !.flags = flags ], b)

makeFrame == << config, project, pc, phaseLog, phasesDone, systemDepsChecked,
               toolMissing, gitLog, hasChanges, diffStat, stashLog, cleaner,
               cleanLog, buildCmds, fatalRaised, exitAs, tree, prompts,
               syncArgs, configured, run, deps, inst, targetManager >>

\* a call that changes a: its record is added to the history
Called(op, name, value, a, b) ==
    /\ make_args.mpc = "ready"
    /\ Len(make_args.history) < MaxCalls
    /\ make_args' = [ make_args EXCEPT
          !.a = a, !.b = b,
          !.before = [ a |-> make_args.a, b |-> make_args.b ],
          !.history = Append(make_args.history,
                             [ op |-> op, name |-> name, value |-> value ]),
          !.returned = << >>,
          !.held = [ object |-> "none", appended |-> FALSE ] ]
    /\ UNCHANGED makeFrame

\* a.set(name=value)
CallSet ==
    \E arg \in SetArgs :
       Called("set", arg.name, arg.value,
              [ make_args.a EXCEPT
                  !.vars = DictSet(make_args.a.vars, arg.name,
                                   DoSetValue(arg.value)) ],
              make_args.b)

\* a.remove_var(name)
CallRemoveVar ==
    \E name \in VarNames :
       Called("remove_var", name, StrValue(<< >>),
              RemoveVar(make_args.a, name), make_args.b)

\* a.update(b)
CallUpdate ==
    Called("update", << >>, StrValue(<< >>),
           Update(make_args.a, make_args.b), make_args.b)

\* a.all_commandline_args is read
ReadAllCommandlineArgs ==
    /\ make_args.mpc = "ready"
    /\ Len(make_args.returned) < 2
    /\ make_args' = [ make_args EXCEPT
          !.returned = Append(make_args.returned,
                              AllCommandlineArgs(make_args.a)),
          !.held = [ object |-> ReturnedObject(make_args.a),
                     appended |-> make_args.held.appended ] ]
    /\ UNCHANGED makeFrame

\* runMake: "allArgs = options.all_commandline_args" and
\* "allArgs.append(self.config.makeJFlag)": the caller appends to the list
\* object it was given
RunMakeAppends ==
    /\ make_args.mpc = "ready"
    /\ Len(make_args.returned) = 1
    /\ ~make_args.held.appended
    /\ make_args' = [ make_args EXCEPT
          !.held.appended = TRUE,
          !.a.flags = IF make_args.held.object = "flags"
                      THEN Append(make_args.a.flags, <<"-j">>)
                      ELSE make_args.a.flags ]
    /\ UNCHANGED makeFrame

NextMake ==
    \/ CallSet
    \/ CallRemoveVar
    \/ CallUpdate
    \/ ReadAllCommandlineArgs
    \/ RunMakeAppends

SpecMake == InitMake /\ [][NextMake]_vars

----------------------------------------------------------------------------
(* One Project object after its constructor: configure(), compile() and     *)
(* install() of a plain Project, a CMakeProject and an AutotoolsProject,    *)
(* and assignments to its attributes (__setattr__)                          *)

ProjectKinds == { "Project", "CMakeProject", "AutotoolsProject" }

InstallConfigValues ==
    [ pretend : BOOLEAN, forceConfigure : BOOLEAN, clean : BOOLEAN,
      configureOnly : BOOLEAN,
      force : {FALSE}, skipUpdate : {FALSE}, skipConfigure : {FALSE},
      skipInstall : {FALSE},
      noLogfile : {FALSE}, quiet : {FALSE}, verbose : {FALSE} ]

\* the attributes __setattr__ guards
GuardedNames == { "configureArgs", "configureEnvironment", "make_args" }

\* self.configureArgs when the constructor has finished: [] for a plain and
\* an Autotools project, the source directory, the generator and the build
\* type for a CMake project
ConstructorArgs(kind) ==
    IF kind = "CMakeProject"
    THEN << <<"sourceDir">>, <<"-GNinja">>, <<"-DCMAKE_BUILD_TYPE=", "Release">> >>
    ELSE << >>

\* self.make_args when the constructor has finished and the project has put
\* a variable into the environment of its make commands
ConstructorMakeArgs ==
    [ NewMakeOptions("DefaultMake") EXCEPT
        !.env_vars = << [ k |-> <<"CC">>, v |-> <<"cc">> ] >> ]

\* kind: the class of the project; installPrefix, destdir: the attribute is
\* set (the class default of both is None); supportsPrefix:
\* _configure_supports_prefix; built: the files needsConfigure looks for are
\* in the build directory; configureArgs, make_args: the content of the
\* attributes; objects: the object each guarded attribute refers to, "given"
\* for the one of the constructor; calls: the calls made so far; cmds: the
\* commands handed to runWithLogfile; error: the exception that ended the
\* call named by raisedIn
InstInitial(kind, installPrefix, destdir, supportsPrefix, built) ==
    [ ipc |-> "created", kind |-> kind, installPrefix |-> installPrefix,
      destdir |-> destdir, supportsPrefix |-> supportsPrefix,
      built |-> built, configureArgs |-> ConstructorArgs(kind),
      make_args |-> ConstructorMakeArgs,
      objects |-> [ n \in GuardedNames |-> "given" ],
      calls |-> << >>, cmds |-> << >>,
      error |-> "none", raisedIn |-> "none" ]

InitInstall ==
    /\ config \in InstallConfigValues
    /\ \E configureCommand \in BOOLEAN :
         project = [ repository |-> TRUE, skipGitSubmodules |-> FALSE,
                     gitRevision |-> FALSE, gitBranch |-> FALSE,
                     inPlace |-> FALSE, configureCommand |-> configureCommand ]
    /\ tree \in { t \in TreeValues : t.exists /\ t.mods = "none" }
    /\ pc = "idle"
    /\ InitLifecycle
    /\ run = RunIdle
    /\ deps = DepsIdle
    /\ targetManager = TargetsIdle
    /\ make_args = MakeIdle
    /\ \E kind \in ProjectKinds, installPrefix \in BOOLEAN,
          destdir \in BOOLEAN, supportsPrefix \in BOOLEAN,
          built \in BOOLEAN :
         \* the constructors of CMakeProject and AutotoolsProject set
         \* configureCommand; _configure_supports_prefix is an attribute of
         \* AutotoolsProject
         /\ kind # "Project" => project.configureCommand
         /\ kind # "AutotoolsProject" => supportsPrefix
         /\ inst = InstInitial(kind, installPrefix, destdir, supportsPrefix,
                               built)

instFrame == << config, project, pc, phaseLog, phasesDone, systemDepsChecked,
               toolMissing, gitLog, hasChanges, diffStat, stashLog, cleaner,
               cleanLog, buildCmds, fatalRaised, exitAs, tree, prompts,
               syncArgs, configured, run, deps, targetManager, make_args >>

\* the object can be called: no earlier call has raised
InstReady ==
    /\ inst.ipc \in { "created", "configured", "compiled", "installed",
                      "assigned" }
    /\ Len(inst.calls) < MaxProjectCalls

\* needsConfigure of the three classes
NeedsConfigure ==
    CASE inst.kind = "Project" -> TRUE
      [] inst.kind = "CMakeProject" ->
            IF config.pretend /\ (config.forceConfigure \/ config.clean)
            THEN TRUE ELSE ~inst.built
      [] inst.kind = "AutotoolsProject" -> ~inst.built

\* "assert self.destdir, ..." in the configure() of CMakeProject and of
\* AutotoolsProject: whether the assertion is reached and fails
ConfigureAssertFails ==
    /\ inst.installPrefix
    /\ ~inst.destdir
    /\ \/ inst.kind = "CMakeProject"
       \/ inst.kind = "AutotoolsProject" /\ inst.supportsPrefix

\* the prefix argument the configure() of the class appends
PrefixArgs ==
    LET dir == IF inst.installPrefix THEN "installPrefix" ELSE "installDir" IN
    CASE inst.kind = "Project" -> << >>
      [] inst.kind = "CMakeProject" -> << <<"-DCMAKE_INSTALL_PREFIX=", dir>> >>
      [] inst.kind = "AutotoolsProject" ->
            IF inst.supportsPrefix THEN << <<"--prefix=", dir>> >> ELSE << >>

\* makeInstallEnv: a copy of make_args.env_vars with DESTDIR added if
\* self.destdir is set, make_args.env_vars itself otherwise
MakeInstallEnv ==
    IF inst.destdir
    THEN DictSet(inst.make_args.env_vars, <<"DESTDIR">>, <<"destdir">>)
    ELSE inst.make_args.env_vars

\* runMakeInstall with "options = self.make_args": no copy is made, the
\* update reaches the project's own option set
InstallOptionsShared ==
    LET options == [ inst.make_args EXCEPT
                       !.env_vars = DictUpdate(@, MakeInstallEnv) ]
    IN  [ options |-> options, make_args |-> options ]

\* runMakeInstall: "options = self.make_args.copy()" and
\* "options.env_vars.update(self.makeInstallEnv)"; options: what runMake is
\* given, make_args: self.make_args afterwards
InstallOptions ==
    [ options |-> [ inst.make_args EXCEPT
                      !.env_vars = DictUpdate(@, MakeInstallEnv) ],
      make_args |-> inst.make_args ]

\* one command handed to runWithLogfile; executed: it was started (in pretend
\* mode it is only printed)
InstCmd(name, args, env) ==
    [ cmd |-> name, args |-> args, env |-> env, executed |-> ~config.pretend ]

\* the record of one call in inst.calls; before: the object before the call
InstCall(op, name, handed) ==
    [ op |-> op, name |-> name, handed |-> handed,
      before |-> [ configureArgs |-> inst.configureArgs,
                   cmds |-> inst.cmds,
                   make_args |-> inst.make_args,
                   built |-> inst.built,
                   needsConfigure |-> NeedsConfigure ] ]

\* how a call that ran a command ends
InstEnded(r, op, done) ==
    [ ipc |-> IF r = "fatal" THEN "raised" ELSE done,
      error |-> IF r = "fatal" THEN "fatal" ELSE "none",
      raisedIn |-> IF r = "fatal" THEN op ELSE "none" ]

\* configure() of the class, then Project.configure.  A configure command
\* that was executed and succeeded has written the files needsConfigure
\* looks for
CallConfigure ==
    /\ InstReady
    /\ IF ConfigureAssertFails
       THEN inst' = [ inst EXCEPT !.ipc = "raised",
                        !.calls = Append(@, InstCall("configure", "none", FALSE)),
                        !.error = "AssertionError", !.raisedIn = "configure" ]
       ELSE \E exitCode \in ExitCodes :
              LET args == inst.configureArgs \o PrefixArgs
                  r == IF ConfigureRuns(NeedsConfigure)
                       THEN RunWithLogfileResult(exitCode) ELSE "skipped"
                  cmds == IF r = "skipped" THEN inst.cmds
                          ELSE Append(inst.cmds,
                                      InstCmd("configure", args, << >>))
                  end == InstEnded(r, "configure", "configured")
              IN  inst' = [ inst EXCEPT
                     !.configureArgs = args, !.cmds = cmds,
                     !.built = IF r = "returned" THEN TRUE ELSE @,
                     !.calls = Append(@, InstCall("configure", "none",
                                                  r # "skipped")),
                     !.ipc = end.ipc, !.error = end.error,
                     !.raisedIn = end.raisedIn ]
    /\ UNCHANGED instFrame

\* runMake(makeTarget, options): the arguments are rendered from options,
\* the environment is options.env_vars
RunMake(op, makeTarget, options, done, makeArgsAfter) ==
    LET rendered == AllCommandlineArgs(options) IN
    IF ~rendered.ok
    THEN inst' = [ inst EXCEPT !.ipc = "raised",
                     !.make_args = makeArgsAfter,
                     !.calls = Append(@, InstCall(op, "none", FALSE)),
                     !.error = "AssertionError", !.raisedIn = op ]
    ELSE \E exitCode \in ExitCodes :
           LET r == RunWithLogfileResult(exitCode)
               end == InstEnded(r, op, done)
           IN  inst' = [ inst EXCEPT
                  !.cmds = Append(@, InstCmd(op, Append(rendered.list,
                                                        <<makeTarget>>),
                                             options.env_vars)),
                  !.make_args = makeArgsAfter,
                  !.calls = Append(@, InstCall(op, "none", TRUE)),
                  !.ipc = end.ipc, !.error = end.error,
                  !.raisedIn = end.raisedIn ]

\* compile(): runMake("all") with self.make_args
CallCompileMake ==
    /\ InstReady
    /\ RunMake("compile", "all", inst.make_args, "compiled", inst.make_args)
    /\ UNCHANGED instFrame

\* install(): runMakeInstall copies the options, adds makeInstallEnv to the
\* environment and calls runMake with the target "install"
CallInstall ==
    /\ InstReady
    /\ RunMake("install", "install", InstallOptions.options, "installed",
               InstallOptions.make_args)
    /\ UNCHANGED instFrame

\* "self.<name> = value" after the constructor, for a guarded name:
\* __setattr__ calls fatalError and then, if that returns, stores the value
Setattr(name) ==
    /\ InstReady
    /\ IF FatalErrorExits(FALSE)
       THEN inst' = [ inst EXCEPT
                        !.ipc = "raised", !.error = "fatal",
                        !.raisedIn = "setattr",
                        !.calls = Append(@, InstCall("setattr", name, FALSE)) ]
       ELSE inst' = [ inst EXCEPT
                        !.ipc = "assigned",
                        !.objects[name] = "new",
                        !.configureArgs = IF name = "configureArgs"
                                          THEN << >> ELSE @,
                        !.make_args = IF name = "make_args"
                                      THEN NewMakeOptions("DefaultMake") ELSE @,
                        !.calls = Append(@, InstCall("setattr", name, FALSE)) ]
    /\ UNCHANGED instFrame

CallSetattr == \E name \in GuardedNames : Setattr(name)

NextInstall ==
    \/ CallConfigure
    \/ CallCompileMake
    \/ CallInstall
    \/ CallSetattr

SpecInstall == InitInstall /\ [][NextInstall]_vars

----------------------------------------------------------------------------
(* The lifecycle: claims C1, C2, C3, C8 *)

IsPrefix(s, t) == Len(s) <= Len(t) /\ \A i \in 1..Len(s) : s[i] = t[i]

\* C1: in one call of process() the phases are started in the order update,
\* checkSystemDependencies, clean, configure, compile, install, none of them
\* twice, and when a phase is started every phase started before it has
\* returned.
C1_PhasesInOrder ==
    /\ \A i, j \in 1..Len(phaseLog) :
         i < j => PhaseIndex(phaseLog[i]) < PhaseIndex(phaseLog[j])
    /\ \A i \in 1..(Len(phaseLog) - 1) : phaseLog[i] \in phasesDone

C1_Witness ==
    /\ pc = "done"
    /\ phaseLog = PhaseOrder
    /\ phasesDone = Range(PhaseOrder)

\* C2: with the clean flag set and a separate build directory, the worker
\* thread of the background cleaner has been joined before configure() runs
\* in the build directory.
C2_CleanerJoinedBeforeConfigure ==
    pc = "configure_run" => cleaner \in {"none", "joined"}

InProcess == pc \notin {"created", "compile_failed", "compile_returned"}

\* C3, as stated: a build command of compile() is run only on a project
\* whose _systemDepsChecked is set, whoever calls compile().
C3_CompileRejectedUnchecked ==
    \A i \in 1..Len(buildCmds) :
        buildCmds[i].cmd = "all" => buildCmds[i].depsChecked

\* C3, amended: process() reaches clean, configure, compile and install only
\* with _systemDepsChecked set, and every build command it runs is run with
\* the flag set (compile() itself makes no check).
C3_ProcessChecksBeforeCompile ==
    InProcess =>
        /\ pc \in {"clean", "configure", "configure_run", "compile",
                   "compile_run", "install", "install_run", "exit_with",
                   "done"} => systemDepsChecked
        /\ \A i \in 1..Len(buildCmds) : buildCmds[i].depsChecked

C3_Witness ==
    /\ pc = "install"
    /\ "checkSystemDependencies" \in phasesDone
    /\ \E i \in 1..Len(buildCmds) :
         buildCmds[i].cmd = "all" /\ buildCmds[i].depsChecked

\* C8: once a phase of process() has failed fatally no further phase is
\* started and no further command is issued, and no step ever takes a phase
\* out of the completed ones or a command out of the logs.
C8_FatalHaltsWithoutRollback ==
    [][ /\ fatalRaised =>
             /\ fatalRaised'
             /\ phaseLog' = phaseLog
             /\ buildCmds' = buildCmds
             /\ gitLog' = gitLog
             /\ cleanLog' = cleanLog
        /\ phasesDone \subseteq phasesDone'
        /\ IsPrefix(gitLog, gitLog')
        /\ IsPrefix(buildCmds, buildCmds') ]_vars

C8_Witness ==
    /\ pc = "failed"
    /\ fatalRaised
    /\ phaseLog[Len(phaseLog)] = "configure"
    /\ "configure" \notin phasesDone
    /\ "update" \in phasesDone
    /\ gitLog # << >>

----------------------------------------------------------------------------
(* The repository synchroniser: claims C9, C10 *)

GitOrder == << "clone", "diff", "stash save", "pull", "submodule update",
               "stash pop", "checkout" >>

GitIndex(c) == CHOOSE i \in 1..Len(GitOrder) : GitOrder[i] = c

Issued(c) == c \in Range(gitLog)

\* update() has returned normally
UpdateReturned == "update" \in phasesDone

\* update() has ended, normally or by a fatal error
UpdateEnded ==
    /\ phaseLog # << >>
    /\ phaseLog[1] = "update"
    /\ pc \notin {"git_clone", "git_diff", "git_stash", "git_pull",
                  "git_submodule", "git_pop", "git_checkout"}

\* C9: the git commands are issued in the order stash save, pull, submodule
\* update, stash pop, checkout, each at most once, and a checkout is issued
\* only for a pinned revision and is the last command.
C9_GitCommandOrder ==
    /\ \A i, j \in 1..Len(gitLog) :
         i < j => GitIndex(gitLog[i]) < GitIndex(gitLog[j])
    /\ Issued("checkout") =>
         project.gitRevision /\ gitLog[Len(gitLog)] = "checkout"
    /\ (UpdateReturned /\ project.gitRevision /\ Issued("pull")) =>
         gitLog[Len(gitLog)] = "checkout"

\* every command of an update of an existing tree (a tree that was just
\* cloned has no local changes to stash)
C9_Witness ==
    /\ UpdateReturned
    /\ gitLog = Tail(GitOrder)

StashedChanges == stashLog = "Saved working directory"

\* the first half of C10: on a tree whose diff reports no changes no stash
\* command is issued, and the pull is
CleanTreeNotStashed ==
    diffStat = "clean" =>
        /\ ~Issued("stash save")
        /\ ~Issued("stash pop")
        /\ pc \in {"git_submodule", "git_pop", "git_checkout"} => Issued("pull")
        /\ UpdateReturned => Issued("pull")

----------------------------------------------------------------------------
(* The repository synchroniser: claims C11, C12, C13, C14, C15 *)

PromptsFor(what) == { i \in 1..Len(prompts) : prompts[i].what = what }

Accepted(what) == \E i \in PromptsFor(what) : prompts[i].result

Declined(what) == \E i \in PromptsFor(what) : ~prompts[i].result

HadLocalMods == tree.mods0 # "none"

\* C11, as stated: whenever update() returns on a tree that had local
\* modifications, the tree is at the upstream revision R2 and has the same
\* local modifications.
C11_DirtyTreeEndsAtUpstream ==
    (UpdateReturned /\ HadLocalMods) =>
        /\ tree.rev = "R2"
        /\ tree.mods = tree.mods0

\* C11, amended: in a run that is not a pretend run, when update() returns
\* on a tree that had local modifications the tree has the same local
\* modifications and none is left in the stash; if the stash confirmation
\* was accepted the tree is at the pinned revision when one is pinned and at
\* the upstream revision R2 otherwise; if it was declined the tree is still
\* at R1 and no git command was issued after the diff.
C11_DirtyTreeReapplied ==
    (UpdateReturned /\ HadLocalMods /\ ~config.pretend) =>
        /\ tree.mods = tree.mods0
        /\ ~tree.stash
        /\ Accepted("stash") =>
              tree.rev = IF project.gitRevision THEN "pin" ELSE "R2"
        /\ Declined("stash") =>
              tree.rev = "R1" /\ gitLog = << "diff" >>
        /\ Accepted("stash") \/ Declined("stash")

C11_Witness ==
    /\ UpdateReturned
    /\ ~config.pretend
    /\ tree.mods0 = "tracked"
    /\ Issued("stash save")
    /\ Issued("stash pop")
    /\ tree.rev = "R2"
    /\ tree.mods = "tracked"

\* C12: git clone is issued only when no .git entry existed at the source
\* path and the confirmation was accepted; when .git exists there is no
\* confirmation prompt and no clone; when the confirmation is declined the
\* run fails fatally with no clone and no later git command issued.
C12_CloneOnlyMissingAndAccepted ==
    /\ Issued("clone") => (~tree.exists0 /\ Accepted("clone"))
    /\ tree.exists0 => (PromptsFor("clone") = {} /\ ~Issued("clone"))
    /\ Declined("clone") =>
          /\ pc = "failed"
          /\ fatalRaised
          /\ gitLog = << >>

C12_Witness ==
    /\ ~tree.exists0
    /\ Declined("clone")
    /\ pc = "failed"
    /\ gitLog = << >>

\* C13: when the source tree is missing, the clone confirmation made in
\* force mode or with a standard input that is not a terminal is answered
\* without reading input, is accepted, and the clone is issued.
C13_CloneAutoAccepted ==
    \A i \in PromptsFor("clone") :
        (config.force \/ ~prompts[i].isatty) =>
            /\ ~prompts[i].readInput
            /\ prompts[i].result
            /\ Issued("clone")

UpdateStarted == phaseLog # << >> /\ phaseLog[1] = "update"

\* C15: update() without a repository fails fatally, pretend mode or not,
\* with no git command issued and no confirmation asked; with a repository
\* it calls the synchroniser with the project's source directory, revision
\* pin, branch and submodule setting, which decide the checkout, the branch
\* of a clone and the submodule update.
C15_UpdateNeedsRepository ==
    /\ (UpdateStarted /\ ~project.repository) =>
          /\ pc = "failed"
          /\ fatalRaised
          /\ gitLog = << >>
          /\ prompts = << >>
          /\ ~syncArgs.called
    /\ (UpdateStarted /\ project.repository) =>
          /\ syncArgs.called
          /\ syncArgs.srcDir = "sourceDir"
          /\ syncArgs.revision = project.gitRevision
          /\ syncArgs.initialBranch = project.gitBranch
          /\ syncArgs.skipSubmodules = project.skipGitSubmodules
    /\ Issued("checkout") => project.gitRevision
    /\ Issued("submodule update") => ~project.skipGitSubmodules
    /\ tree.branch = "initialBranch" => project.gitBranch

C15_Witness ==
    /\ ~project.repository
    /\ config.pretend
    /\ phaseLog = << "update" >>
    /\ pc = "failed"

----------------------------------------------------------------------------
(* The lifecycle: claims C16, C18, C19, C20 *)

Started(phase) == phase \in Range(phaseLog)

Ran(cmd) == \E i \in 1..Len(buildCmds) : buildCmds[i].cmd = cmd

\* C16: with skipUpdate no git command is issued and update is not started;
\* a process() call that ends normally has run the dependency check, and has
\* run update, configure, compile and install exactly when its own skip flag
\* (and, for the last three, the configure-only mode) does not suppress it;
\* outside pretend mode the commands of compile and install were run
\* accordingly.
C16_SkipFlagsSuppressOwnPhase ==
    /\ (InProcess /\ config.skipUpdate) =>
          (gitLog = << >> /\ ~Started("update") /\ prompts = << >>)
    /\ (InProcess /\ config.skipInstall) =>
          (~Started("install") /\ ~Ran("install"))
    /\ (InProcess /\ config.skipConfigure /\ ~config.configureOnly) =>
          (~Started("configure") /\ ~Ran("configure"))
    /\ pc = "done" =>
          /\ "checkSystemDependencies" \in phasesDone
          /\ ("update" \in phasesDone) <=> ~config.skipUpdate
          /\ ("configure" \in phasesDone) <=>
                (~config.skipConfigure \/ config.configureOnly)
          /\ ("compile" \in phasesDone) <=> ~config.configureOnly
          /\ ("install" \in phasesDone) <=>
                (~config.configureOnly /\ ~config.skipInstall)
          /\ ~config.pretend =>
                /\ Ran("all") <=> ~config.configureOnly
                /\ Ran("install") <=>
                      (~config.configureOnly /\ ~config.skipInstall)

C16_Witness ==
    /\ pc = "done"
    /\ config.skipUpdate /\ config.skipConfigure /\ config.skipInstall
    /\ ~config.configureOnly /\ ~config.pretend /\ ~config.clean
    /\ phaseLog = << "checkSystemDependencies", "compile" >>
    /\ Ran("all")

ConfigurePassed ==
    pc \in {"compile", "compile_run", "install", "install_run", "exit_with",
            "done", "failed"} /\ Started("checkSystemDependencies")
    /\ (pc = "failed" => exitAs = "fatal")

\* C19, as stated: with the force-configure flag set, a project with a
\* configure command, and outside pretend mode, a process() call that has
\* passed its configure phase has run the configure command, whatever the
\* other flags are.
C19_ForceConfigureAlwaysRuns ==
    (ConfigurePassed /\ config.forceConfigure /\ project.configureCommand
       /\ ~config.pretend) => Ran("configure")

\* C19, amended: with the force-configure flag set, whenever process() calls
\* configure() the configure command is handed to runWithLogfile if the
\* project has one, whatever needsConfigure() returned, and outside pretend
\* mode it is run; configure() is not called at all when skipConfigure is
\* set without configure-only mode.
C19_ForceConfigureOverridesNeeds ==
    /\ (config.forceConfigure /\ configured.called) =>
          /\ configured.ran = project.configureCommand
          /\ (project.configureCommand /\ ~config.pretend) =>
                Ran("configure")
    /\ (InProcess /\ config.skipConfigure /\ ~config.configureOnly) =>
          (~configured.called /\ ~Ran("configure"))

C19_Witness ==
    /\ config.forceConfigure
    /\ ~config.configureOnly /\ ~config.clean /\ ~config.pretend
    /\ configured.called
    /\ ~configured.needsConfigure
    /\ configured.ran
    /\ Ran("configure")

\* C20: in configure-only mode process() calls configure(), also with the
\* skip-configure flag set and with needsConfigure() false, hands the
\* configure command to runWithLogfile if the project has one, and returns
\* normally after it: compile and install are never started and none of
\* their commands is run.
C20_ConfigureOnlyStopsAfterConfigure ==
    (InProcess /\ config.configureOnly) =>
        /\ ~Started("compile") /\ ~Started("install")
        /\ ~Ran("all") /\ ~Ran("install")
        /\ pc \notin {"compile", "compile_run", "install", "install_run"}
        /\ configured.called =>
              /\ configured.ran = project.configureCommand
              /\ (project.configureCommand /\ ~config.pretend) =>
                    Ran("configure")
        /\ pc = "done" =>
              /\ "configure" \in phasesDone
              /\ configured.called
              /\ ~fatalRaised
              /\ phaseLog[Len(phaseLog)] = "configure"

C20_Witness ==
    /\ pc = "done"
    /\ config.configureOnly /\ config.skipConfigure
    /\ ~config.forceConfigure /\ ~config.pretend /\ ~config.clean
    /\ configured.called /\ ~configured.needsConfigure
    /\ Ran("configure")

----------------------------------------------------------------------------
(* checkSystemDependencies: claim C17 *)

DepsEnded == deps.dpc \in {"returned", "raised"}

Missing == { i \in 1..Len(deps.tools) : ~deps.tools[i].found }

FirstMissing == CHOOSE i \in Missing : \A j \in Missing : i <= j

UpTo(n) == [ j \in 1..n |-> j ]

\* the check ended at the first missing tool, in a fatal error that names
\* the tool and its installation hint, with no later tool examined
EndedAtFirstMiss ==
    /\ deps.dpc = "raised"
    /\ fatalRaised
    /\ deps.examined = UpTo(FirstMissing)
    /\ Len(deps.errors) = 1
    /\ deps.errors[1].tool = FirstMissing
    /\ deps.errors[1].hint = InstallHint(deps.tools[FirstMissing].hint)
    /\ deps.errors[1].hint # "none"

----------------------------------------------------------------------------
(* install prefix without DESTDIR: claim C21 *)

\* install() was called and has ended
InstallEnded ==
    \/ inst.ipc = "installed"
    \/ inst.ipc = "raised" /\ inst.raisedIn = "install"

InstallCmdRan ==
    \E i \in 1..Len(inst.cmds) :
        inst.cmds[i].cmd = "install" /\ inst.cmds[i].executed

\* C21: install() on a project whose install prefix is set and whose DESTDIR
\* is not set ends with a fatal error and has run no install command, for a
\* plain Project, a CMakeProject and an AutotoolsProject
C21_PrefixWithoutDestdirIsFatal ==
    ( InstallEnded /\ inst.installPrefix /\ ~inst.destdir )
        => ( inst.ipc = "raised" /\ ~InstallCmdRan )

----------------------------------------------------------------------------
(* The dependency graph: claims C22, C23, C24 *)

Resolved == targetManager.tpc = "resolved"

\* the dependencies the class of a registered target declares
DeclaredDependencies(name) ==
    targetManager.targetMap[name].projectClass.dependencies

\* the names reachable from the names of S along declared dependencies
RECURSIVE ReachableFrom(_)
ReachableFrom(S) ==
    LET next == S \cup UNION { Range(DeclaredDependencies(n)) :
                               n \in S \cap DOMAIN targetManager.targetMap }
    IN  IF next = S THEN S ELSE ReachableFrom(next)

\* the transitive dependencies of a registered target
TransitiveDependencies(name) ==
    ReachableFrom(Range(DeclaredDependencies(name)))

\* the target lies on a dependency cycle
OnCycle(name) == name \in TransitiveDependencies(name)

\* the graph below the target: every name is registered, none is on a cycle
GraphIsClosed(name) ==
    TransitiveDependencies(name) \subseteq DOMAIN targetManager.targetMap

GraphIsAcyclic(name) ==
    /\ ~OnCycle(name)
    /\ \A n \in TransitiveDependencies(name) \cap DOMAIN targetManager.targetMap :
          ~OnCycle(n)

\* a depth-first walk with a visited list: todo holds the names still to be
\* looked at, the dependencies of a name in front of its siblings
RECURSIVE DepthFirst(_, _)
DepthFirst(todo, seen) ==
    IF todo = << >> THEN seen
    ELSE LET n == Head(todo) IN
         IF n \in Range(seen) THEN DepthFirst(Tail(todo), seen)
         ELSE DepthFirst(DeclaredDependencies(n) \o Tail(todo), Append(seen, n))

FirstDiscovered(name) == DepthFirst(DeclaredDependencies(name), << >>)

NoDuplicates(s) == \A i, j \in 1..Len(s) : s[i] = s[j] => i = j

\* C22: for a registered target of an acyclic graph allDependencyNames
\* returns every declared and every transitive dependency, each name once,
\* diamonds included, in the order a depth-first walk discovers them first
C22_AllDependenciesOnceInDiscoveryOrder ==
    ( /\ Resolved
      /\ GraphIsClosed(targetManager.resolved)
      /\ GraphIsAcyclic(targetManager.resolved) )
    => LET names == targetManager.result.names
           name == targetManager.resolved
       IN  /\ targetManager.result.kind = "returned"
           /\ Range(DeclaredDependencies(name)) \subseteq Range(names)
           /\ Range(names) = TransitiveDependencies(name)
           /\ NoDuplicates(names)
           /\ names = FirstDiscovered(name)

\* a diamond: a depends on b and c, both of which depend on d
C22_Witness ==
    /\ Resolved
    /\ targetManager.resolved = <<"a">>
    /\ DOMAIN targetManager.targetMap = TargetNames
    /\ DeclaredDependencies(<<"a">>) = << <<"b">>, <<"c">> >>
    /\ DeclaredDependencies(<<"b">>) = << <<"d">> >>
    /\ DeclaredDependencies(<<"c">>) = << <<"d">> >>
    /\ DeclaredDependencies(<<"d">>) = << >>
    /\ targetManager.result = Returned(<< <<"b">>, <<"d">>, <<"c">> >>)

\* C23: resolving the dependencies of a target that lies on a dependency
\* cycle ends with a DependencyCycleError
C23_CycleEndsWithDependencyCycleError ==
    ( Resolved /\ OnCycle(targetManager.resolved) )
        => ( /\ targetManager.result.kind = "raised"
             /\ targetManager.result.error = "DependencyCycleError" )

\* no lifecycle phase of any project has started
NoPhaseHasRun == phaseLog = << >> /\ phasesDone = {} /\ buildCmds = << >>

----------------------------------------------------------------------------
(* Registration and build directories: claims C25, C26 *)

\* the class statement executed last, and the names it added to targetMap
LastClass == targetManager.defined[1].cls

NewNames == DOMAIN targetManager.targetMap \ targetManager.defined[1].before

\* the names a class with architectures has to register
BaseAndArchNames(cls) ==
    { HookTargetName(cls) }
    \cup { ArchTargetName(HookTargetName(cls), cls.supported_architectures[i]) :
           i \in 1..Len(cls.supported_architectures) }

SameDependencyNames(cls) ==
    \A n \in NewNames :
        targetManager.targetMap[n].dependencies = Range(cls.dependencies)

RegistersPerArchitecture(cls) ==
    IF cls.hasArchs
    THEN /\ NewNames = BaseAndArchNames(cls)
         /\ Cardinality(NewNames) = Len(cls.supported_architectures) + 1
         /\ SameDependencyNames(cls)
    ELSE /\ NewNames = { HookTargetName(cls) }
         /\ SameDependencyNames(cls)

TargetsOfLastClass ==
    { n \in DOMAIN targetManager.targetMap :
        targetManager.targetMap[n].kind = "MultiArchTarget" }

\* C26: the default build directories of the base target and of the
\* architecture variants of a multi-arch project are pairwise distinct
C26_BuildDirsPairwiseDistinct ==
    targetManager.tpc = "built"
        => \A n1, n2 \in TargetsOfLastClass :
              ( /\ n1 # n2
                /\ targetManager.buildDirs[n1].ok
                /\ targetManager.buildDirs[n2].ok )
              => targetManager.buildDirs[n1].path # targetManager.buildDirs[n2].path

----------------------------------------------------------------------------
(* MakeOptions: claims C27, C28, C29, C30 *)

Rendered == make_args.returned # << >>

RenderedTwice == Len(make_args.returned) = 2

\* the last call made on a
LastCall == make_args.history[Len(make_args.history)]

LastCallWas(op) == make_args.history # << >> /\ LastCall.op = op

\* environments two option sets may differ in
EnvValues == { << >>, << [ k |-> <<"DESTDIR">>, v |-> <<"x">> ] >> }

IndexOf(d, k) == CHOOSE i \in 1..Len(d) : d[i].k = k

\* C28: set() stores a bool as "1" or "0" and a string as it is, under the
\* name once, leaving the other variables alone; a variable set to True is
\* rendered, at its place among the variables, as NAME=1 by GNU make and as
\* -DNAME by BSD make
C28_SetStoresAndRendersBool ==
    LastCallWas("set")
        => LET name == LastCall.name
               value == LastCall.value
               new == make_args.a.vars
               old == make_args.before.a.vars
           IN  /\ Cardinality({ i \in 1..Len(new) : new[i].k = name }) = 1
               /\ DictGet(new, name) =
                     IF value.isBool
                     THEN (IF value.b THEN <<"1">> ELSE <<"0">>)
                     ELSE value.s
               /\ \A i \in 1..Len(old) :
                     old[i].k # name => new[i] = old[i]
               /\ ( Rendered /\ value = BoolValue(TRUE) )
                     => LET args == make_args.returned[1] IN
                        /\ make_args.a.kind = "GnuMake"
                             => ( args.ok /\ args.list[IndexOf(new, name)]
                                               = name \o <<"=", "1">> )
                        /\ make_args.a.kind = "BsdMake"
                             => ( args.ok /\ args.list[IndexOf(new, name)]
                                               = <<"-D">> \o name )

\* FOO="x" overwritten by FOO=True, rendered by BSD make
C28_Witness ==
    /\ Len(make_args.history) = 2
    /\ make_args.history[1] =
          [ op |-> "set", name |-> <<"FOO">>, value |-> StrValue(<<"x">>) ]
    /\ make_args.history[2] =
          [ op |-> "set", name |-> <<"FOO">>, value |-> BoolValue(TRUE) ]
    /\ make_args.a.kind = "BsdMake"
    /\ Rendered
    /\ make_args.returned[1].list[1] = <<"-D", "FOO">>

\* the token is -D<name> or starts with <name>=
HasRemovedShape(token, name) ==
    \/ token = <<"-D">> \o name
    \/ StrStartsWith(token, name \o <<"=">>)

NoTokenOfRemovedShape(list, name) ==
    \A i \in 1..Len(list) : ~HasRemovedShape(list[i], name)

RendersByDialect(o) == o.kind \in { "GnuMake", "BsdMake" }

\* C29 as stated: after set(FOO=True) and remove_var("FOO") the rendered
\* list has no token -DFOO and none starting with FOO=, and it is the list
\* rendered before the removal without the tokens of that shape
C29_RemoveVarDropsOnlyThatShape ==
    ( /\ Len(make_args.history) = 2
      /\ make_args.history[1] =
            [ op |-> "set", name |-> <<"FOO">>, value |-> BoolValue(TRUE) ]
      /\ make_args.history[2].op = "remove_var"
      /\ make_args.history[2].name = <<"FOO">>
      /\ RendersByDialect(make_args.a)
      /\ Rendered )
    => LET Keep(token) == ~HasRemovedShape(token, <<"FOO">>) IN
       /\ make_args.returned[1].ok
       /\ NoTokenOfRemovedShape(make_args.returned[1].list, <<"FOO">>)
       /\ make_args.returned[1].list =
             SelectSeq(AllCommandlineArgs(make_args.before.a).list, Keep)

\* the option set without the variable and the with-option of the name and
\* without the flags that are -D<name> once stripped of surrounding blanks
\* or that start with <name>=
WithoutName(o, name) ==
    LET KeepEntry(e) == e.k # name
        KeepFlag(flag) ==
            /\ StrStrip(flag) # <<"-D">> \o name
            /\ ~StrStartsWith(flag, name \o <<"=">>)
    IN  [ o EXCEPT !.vars = SelectSeq(o.vars, KeepEntry),
                   !.with_options = SelectSeq(o.with_options, KeepEntry),
                   !.flags = SelectSeq(o.flags, KeepFlag) ]

\* C29: after remove_var(name), also right after set(name=True), the
\* rendered list has no token -D<name> and none starting with <name>=,
\* however often such a flag had been added; what is rendered is, in the
\* original order, every variable and with-option of another name and every
\* flag that is neither -D<name> (surrounding blanks ignored) nor starts
\* with <name>=
C29_RemoveVarDropsNameAndMatchingFlags ==
    ( LastCallWas("remove_var") /\ RendersByDialect(make_args.a) /\ Rendered )
    => /\ make_args.returned[1].ok
       /\ NoTokenOfRemovedShape(make_args.returned[1].list, LastCall.name)
       /\ make_args.returned[1] =
             AllCommandlineArgs(WithoutName(make_args.before.a, LastCall.name))

\* set(FOO=True), remove_var("FOO") with -DFOO among the flags twice
C29_Witness ==
    /\ Len(make_args.history) = 2
    /\ make_args.history[1] =
          [ op |-> "set", name |-> <<"FOO">>, value |-> BoolValue(TRUE) ]
    /\ make_args.history[2].op = "remove_var"
    /\ make_args.history[2].name = <<"FOO">>
    /\ make_args.before.a.flags = << <<"-D", "FOO">>, <<"-D", "FOO">> >>
    /\ make_args.a.kind = "BsdMake"
    /\ Rendered
    /\ make_args.returned[1].list = << <<"-D", "WITHOUT_", "MAN">> >>

DictKeys(d) == { d[i].k : i \in 1..Len(d) }

\* the entries of other are in d, the entries of old under other names too,
\* and nothing else
MergedInto(d, old, other) ==
    /\ DictKeys(d) = DictKeys(old) \cup DictKeys(other)
    /\ \A k \in DictKeys(other) : DictGet(d, k) = DictGet(other, k)
    /\ \A k \in DictKeys(old) \ DictKeys(other) : DictGet(d, k) = DictGet(old, k)
    /\ Len(d) = Cardinality(DictKeys(d))

\* C30: after a.update(b) every variable and with-option of b is in a with
\* the value of b, every entry of a under another name is kept, the flags
\* of a are its old flags followed by those of b, and b is unchanged
C30_UpdateMergesOtherWins ==
    LastCallWas("update")
        => /\ MergedInto(make_args.a.vars, make_args.before.a.vars,
                         make_args.b.vars)
           /\ MergedInto(make_args.a.with_options,
                         make_args.before.a.with_options,
                         make_args.b.with_options)
           /\ make_args.a.flags = make_args.before.a.flags \o make_args.b.flags
           /\ make_args.b = make_args.before.b

\* a holds FOO=1, the with-options MAN and FOO and the flag -k; b holds
\* BAR=1, FOO=0, the with-option FOO and two flags: FOO collides twice
C30_Witness ==
    /\ LastCallWas("update")
    /\ make_args.before.a.vars = << [ k |-> <<"FOO">>, v |-> <<"1">> ] >>
    /\ make_args.before.a.with_options =
          << [ k |-> <<"MAN">>, v |-> FALSE ], [ k |-> <<"FOO">>, v |-> TRUE ] >>
    /\ make_args.before.a.flags = << <<"-k">> >>
    /\ make_args.b.vars = << [ k |-> <<"BAR">>, v |-> <<"1">> ],
                             [ k |-> <<"FOO">>, v |-> <<"0">> ] >>
    /\ make_args.a.vars = << [ k |-> <<"FOO">>, v |-> <<"0">> ],
                             [ k |-> <<"BAR">>, v |-> <<"1">> ] >>
    /\ make_args.a.with_options =
          << [ k |-> <<"MAN">>, v |-> FALSE ], [ k |-> <<"FOO">>, v |-> FALSE ] >>
    /\ make_args.a.flags = << <<"-k">>, <<"-D", "FOO">>, <<"-k">> >>

----------------------------------------------------------------------------
(* MakeOptions: claims C31, C39 *)

\* the tokens that define WITH_NAME / WITHOUT_NAME: -DWITH_NAME, WITH_NAME=1
WithPrefix(e) == IF e.v THEN <<"WITH_">> ELSE <<"WITHOUT_">>

BsdDefine(e) == <<"-D">> \o WithPrefix(e) \o e.k

WellFormedDefines(e) ==
    { BsdDefine(e), WithPrefix(e) \o e.k \o <<"=", "1">> }

\* C31: every with-option is rendered as one token, at its place after the
\* variables: -DWITH_NAME or -DWITHOUT_NAME by BSD make, a well-formed
\* define of WITH_NAME or WITHOUT_NAME by every other dialect
C31_WithOptionRendersAsDefine ==
    Rendered
        => LET o == make_args.a
               args == make_args.returned[1]
           IN  o.with_options # << >>
                 => /\ args.ok
                    /\ Len(args.list)
                         = Len(o.vars) + Len(o.with_options) + Len(o.flags)
                    /\ \A i \in 1..Len(o.with_options) :
                          LET token == args.list[Len(o.vars) + i]
                              e == o.with_options[i]
                          IN  IF o.kind = "BsdMake"
                              THEN token = BsdDefine(e)
                              ELSE token \in WellFormedDefines(e)

\* C39: all_commandline_args returns a list, whatever the kind and the
\* content of the option set
C39_RenderingNeverFails ==
    Rendered => make_args.returned[1].ok

----------------------------------------------------------------------------
(* The repository synchroniser: claim C36 *)

\* C36: when _updateGitRepo has ended, by returning or by the fatal error of
\* one of its commands, the user's modifications are not left in the
\* automatic stash: a stash that was saved has been popped
C36_StashPoppedAtEnd ==
    UpdateEnded => ~tree.stash

----------------------------------------------------------------------------
(* checkSystemDependencies: claim C40 *)

\* C40: _systemDepsChecked is set only if the check found no required tool
\* missing, and process() enters clean, configure or compile only then
C40_CheckedOnlyIfToolsPresent ==
    /\ systemDepsChecked => ~toolMissing
    /\ ( \E i \in 1..Len(phaseLog) :
            phaseLog[i] \in { "clean", "configure", "compile" } )
          => ~toolMissing

----------------------------------------------------------------------------
(* The Project object: claims C32, C34, C37, C38 *)

\* the last call made on the project
LastInstCall == inst.calls[Len(inst.calls)]

LastInstCallWas(op) == inst.calls # << >> /\ LastInstCall.op = op

\* C32: the guarded attributes refer to the objects of the constructor, and
\* every assignment to one of them ends the run with a fatal error
C32_GuardedAttributesNeverReassigned ==
    inst.ipc # "idle" =>
        /\ \A n \in GuardedNames : inst.objects[n] = "given"
        /\ LastInstCallWas("setattr")
              => ( inst.ipc = "raised" /\ inst.error = "fatal" )

\* configure() got as far as Project.configure: no assertion of the
\* subclass failed
ReachedProjectConfigure ==
    /\ LastInstCallWas("configure")
    /\ inst.error # "AssertionError"

\* C34: Project.configure hands the configure command to runWithLogfile if
\* and only if there is a configure command and needsConfigure() is true or
\* one of configureOnly, forceConfigure, pretend, clean is set; then exactly
\* that one command is added (and started unless in pretend mode), and
\* otherwise no command is added
C34_ConfigureRunsIffNeededOrForced ==
    ReachedProjectConfigure
        => LET call == LastInstCall
               wanted == /\ project.configureCommand
                         /\ \/ call.before.needsConfigure
                            \/ config.configureOnly
                            \/ config.forceConfigure
                            \/ config.pretend
                            \/ config.clean
           IN  /\ call.handed <=> wanted
               /\ wanted
                    => /\ Len(inst.cmds) = Len(call.before.cmds) + 1
                       /\ SubSeq(inst.cmds, 1, Len(call.before.cmds))
                            = call.before.cmds
                       /\ inst.cmds[Len(inst.cmds)].cmd = "configure"
                       /\ inst.cmds[Len(inst.cmds)].executed = ~config.pretend
               /\ ~wanted => inst.cmds = call.before.cmds

\* a build directory that holds the files of an earlier configure is
\* configured again because of the clean flag alone
C34_Witness ==
    /\ ReachedProjectConfigure
    /\ inst.kind = "CMakeProject"
    /\ ~LastInstCall.before.needsConfigure
    /\ config.clean
    /\ ~config.pretend /\ ~config.forceConfigure /\ ~config.configureOnly
    /\ LastInstCall.handed
    /\ inst.cmds[Len(inst.cmds)].executed

HasDestdir(env) == DictHas(env, <<"DESTDIR">>)

\* C37: install() leaves self.make_args as it was, and no compile command
\* has DESTDIR in its environment
C37_InstallKeepsMakeArgs ==
    inst.ipc # "idle" =>
        /\ LastInstCallWas("install")
              => inst.make_args = LastInstCall.before.make_args
        /\ \A i \in 1..Len(inst.cmds) :
              inst.cmds[i].cmd = "compile" => ~HasDestdir(inst.cmds[i].env)

\* install with DESTDIR in its environment, then compile without it
C37_Witness ==
    /\ Len(inst.cmds) = 2
    /\ inst.cmds[1].cmd = "install"
    /\ HasDestdir(inst.cmds[1].env)
    /\ inst.cmds[1].executed
    /\ inst.cmds[2].cmd = "compile"
    /\ inst.cmds[2].executed
    /\ inst.destdir

\* the argument lists of the configure commands handed to runWithLogfile
ConfigureCmdArgs ==
    { inst.cmds[i].args : i \in { j \in 1..Len(inst.cmds) :
                                    inst.cmds[j].cmd = "configure" } }

\* C38: a configure() call that runs no command leaves configureArgs as it
\* was, and every configure command of the project is given the same
\* argument list
C38_ConfigureArgsNotGrown ==
    inst.ipc # "idle" =>
        /\ ( ReachedProjectConfigure /\ ~LastInstCall.handed )
              => inst.configureArgs = LastInstCall.before.configureArgs
        /\ Cardinality(ConfigureCmdArgs) <= 1

----------------------------------------------------------------------------
(* runWithLogfile: claims C4, C5, C6, C7 *)

RunEnded == run.rpc \in {"returned", "raised"}

\* C4: when runWithLogfile has returned or has raised the fatal error of a
\* nonzero exit code, a stderr thread it started has ended and was joined.
C4_ThreadJoinedAtEnd ==
    (run.rpc # "idle" /\ RunEnded) =>
        /\ run.tpc \in {"none", "dead"}
        /\ run.started => run.joined

C4_Witness ==
    /\ run.rpc = "raised"
    /\ run.started
    /\ run.joined
    /\ run.nErr = MaxErrLines
    /\ run.raisedIn = {}

MainWrites == run.rpc \in {"write_log", "write_term"}
ErrWrites  == run.tpc \in {"write_term", "write_log"}

\* C5: the calling thread and the stderr thread are never both writing a
\* line, and each writes its line holding the lock.
C5_WritesUnderLock ==
    run.rpc # "idle" =>
        /\ ~(MainWrites /\ ErrWrites)
        /\ MainWrites => run.lock = "main"
        /\ ErrWrites => run.lock = "err"

\* the stderr thread holds the lock, writing, while the caller waits for it
C5_Witness ==
    /\ ErrWrites
    /\ run.rpc = "acquire"
    /\ run.lock = "err"

AllChildLines ==
    Range(ChildStdout(run.nOut)) \cup Range(ChildStderr(run.nErr))

Occurrences(seq, x) == Cardinality({ i \in 1..Len(seq) : seq[i] = x })

\* C6: with logging enabled, once runWithLogfile has ended the log holds
\* every line of the child's stdout and stderr exactly once, the lines left
\* unread on a pipe included (a line whose handling itself raised an error
\* is not counted).
C6_LogHoldsEveryLine ==
    (run.rpc # "idle" /\ RunEnded /\ run.childRan /\ ~config.noLogfile) =>
        \A l \in AllChildLines \ run.raisedIn :
            Occurrences(run.log, l) = 1

\* C7: a nonzero exit code ends runWithLogfile in a fatal error that carries
\* the command line and, with logging enabled, the path of the log file.
C7_NonzeroExitIsFatal ==
    (run.rpc # "idle" /\ RunEnded /\ run.childRan /\ run.exitCode # 0) =>
        /\ run.rpc = "raised"
        /\ run.error.kind # "none"
        /\ run.error.cmdLine
        /\ ~config.noLogfile => run.error.logPath

----------------------------------------------------------------------------
(* runWithLogfile: claims C33, C35 *)

\* C33: a call that is not given appendToLogfile keeps what an earlier run
\* left in the log file and adds to it
C33_LogAppendedByDefault ==
    ( /\ run.rpc # "idle" /\ RunEnded /\ run.childRan
      /\ ~config.noLogfile
      /\ run.logExists /\ ~run.appendToLogfile )
        => ( run.log # << >> /\ run.log[1] = OldLogLine )

\* C35: while the stderr thread is alive, the flag is read and written only
\* by a thread that holds the lock; the handler never writes a chunk where
\* a progress line stands, and when it has written one the flag is clear
C35_FlagGuardedAndLineKept ==
    run.rpc # "idle" =>
        /\ \A a \in run.flagAccesses : a.threadAlive => a.lock = a.by
        /\ \A w \in run.errWrittenOn : ~w.onProgressLine
        /\ run.tpc = "write_log"
              => ( ~run.lastStdoutLineCanBeOverwritten /\ ~run.onProgressLine )
        /\ run.onProgressLine => run.lastStdoutLineCanBeOverwritten

\* the handler has written a chunk behind a progress line the filter of the
\* calling thread had left, both under the lock
C35_Witness ==
    /\ run.tpc = "write_log"
    /\ run.filter = "notImportant"
    /\ \E w \in run.errWrittenOn : w.flagWasSet
    /\ \E a \in run.flagAccesses : a.by = "main" /\ a.threadAlive
    /\ \E a \in run.flagAccesses : a.by = "err"
    /\ ~run.lastStdoutLineCanBeOverwritten

====
